---- MODULE Spec2Model ----
(***************************************************************************)
(* A state-machine model of the rustyfic interactive-fiction engine:       *)
(* GameState (src/src/lib.rs) and the resolvers of src/src/engine/.        *)
(*                                                                         *)
(* Strings are modelled as follows.                                        *)
(*  - a command, a name, a phrase: the sequence of its whitespace-         *)
(*    separated words (split_whitespace), lower-cased by Lower;            *)
(*  - a condition / effect / flag string: [bangs, name], the string made   *)
(*    of `bangs` leading '!' characters followed by `name`;                *)
(*  - an output text: a sequence of string fragments (their concatenation).*)
(* HashMap iteration order (world.items.values(), world.npcs.values()) is  *)
(* unspecified by the language: it is the pair item_order, npc_order,      *)
(* chosen when the world is built and fixed for the life of the World.     *)
(***************************************************************************)
EXTENDS Integers, Sequences, FiniteSets, TLC

\* Number of commands a session of the model processes.
MaxSteps == 4

----------------------------------------------------------------------------
(* Generic sequence helpers *)

Range(s) == { s[i] : i \in 1..Len(s) }

RECURSIVE Concat(_)
Concat(ss) == IF ss = <<>> THEN <<>> ELSE Head(ss) \o Concat(Tail(ss))

RECURSIVE SumSeq(_)
SumSeq(s) == IF s = <<>> THEN 0 ELSE Head(s) + SumSeq(Tail(s))

RECURSIVE MaxSeq(_)
MaxSeq(s) == IF s = <<>> THEN 0
             ELSE LET m == MaxSeq(Tail(s)) IN IF Head(s) > m THEN Head(s) ELSE m


\* str::to_lowercase on the model's vocabulary (upper-case words of the
\* command alphabet are listed here; every other word is already lower-case).
Lower(w) ==
  CASE w = "NORTH" -> "north"
    [] w = "Ring"  -> "ring"
    [] w = "TAKE"  -> "take"
    [] w = "Old"   -> "old"
    [] OTHER       -> w

LowerAll(ws) == [i \in 1..Len(ws) |-> Lower(ws[i])]

----------------------------------------------------------------------------
(* Condition and effect strings *)

Pos(f) == [bangs |-> 0, name |-> f]
Neg(f) == [bangs |-> 1, name |-> f]

\* s.strip_prefix('!'): the string without its first '!' (only when bangs > 0)
StripBang(c) == [bangs |-> c.bangs - 1, name |-> c.name]

\* a check that is content with one condition that holds
conditions_met_by_any(conditions, flags) ==
  \E i \in 1..Len(conditions) :
     LET cond == conditions[i] IN
       IF cond.bangs > 0 THEN StripBang(cond) \notin flags
                         ELSE cond \in flags

conditions_met(conditions, flags) ==
  \A i \in 1..Len(conditions) :
     LET cond == conditions[i] IN
       IF cond.bangs > 0 THEN StripBang(cond) \notin flags
                         ELSE cond \in flags

\* effects applied from the last to the first
RECURSIVE apply_effects_backwards(_, _)
apply_effects_backwards(flags, effects) ==
  IF effects = <<>> THEN flags
  ELSE LET eff == effects[Len(effects)]
           f2  == IF eff.bangs > 0 THEN flags \ {StripBang(eff)}
                                   ELSE flags \cup {eff}
       IN  apply_effects_backwards(f2, SubSeq(effects, 1, Len(effects) - 1))

RECURSIVE apply_effects(_, _)
apply_effects(flags, effects) ==
  IF effects = <<>> THEN flags
  ELSE LET eff == Head(effects)
           f2  == IF eff.bangs > 0 THEN flags \ {StripBang(eff)}
                                   ELSE flags \cup {eff}
       IN  apply_effects(f2, Tail(effects))

----------------------------------------------------------------------------
(* The seeded hash of movement.rs / npcs.rs, on u64 values held as eight    *)
(* little-endian 8-bit limbs (wrapping_mul is multiplication mod 2^64).     *)

\* 1469598103934665603 = 0x14650fb0739d0383
HashOffsetBasis == <<131, 3, 157, 115, 176, 15, 101, 20>>
\* 1099511628211 = 0x00000100000001b3
HashPrime == <<179, 1, 0, 0, 0, 1, 0, 0>>

RECURSIVE BitXor(_, _)
BitXor(a, b) ==
  IF a = 0 THEN b
  ELSE IF b = 0 THEN a
  ELSE (((a % 2) + (b % 2)) % 2) + (2 * BitXor(a \div 2, b \div 2))

\* a small natural number (< 2^31) as a u64
ToU64(n) ==
  << n % 256, (n \div 256) % 256, (n \div 65536) % 256, (n \div 16777216) % 256,
     0, 0, 0, 0 >>

XorU64(x, y) ==
  << BitXor(x[1], y[1]), BitXor(x[2], y[2]), BitXor(x[3], y[3]), BitXor(x[4], y[4]),
     BitXor(x[5], y[5]), BitXor(x[6], y[6]), BitXor(x[7], y[7]), BitXor(x[8], y[8]) >>

\* column k of the schoolbook product, before carries
RECURSIVE MulColumn(_, _, _, _)
MulColumn(x, y, k, i) ==
  IF i > k THEN 0 ELSE (x[i] * y[k + 1 - i]) + MulColumn(x, y, k, i + 1)

RECURSIVE MulCarry(_, _, _, _)
MulCarry(x, y, k, carry) ==
  IF k > 8 THEN <<>>
  ELSE LET v == MulColumn(x, y, k, 1) + carry
       IN  <<v % 256>> \o MulCarry(x, y, k + 1, v \div 256)

\* u64::wrapping_mul
WrappingMul(x, y) == MulCarry(x, y, 1, 0)

\* x % m for a small m, most significant limb first
RECURSIVE ModFrom(_, _, _, _)
ModFrom(x, m, i, acc) ==
  IF i = 0 THEN acc ELSE ModFrom(x, m, i - 1, ((acc * 256) + x[i]) % m)

ModU64(x, m) == ModFrom(x, m, 8, 0)

RECURSIVE HashBytes(_, _)
HashBytes(h, bytes) ==
  IF bytes = <<>> THEN h
  ELSE HashBytes(WrappingMul(XorU64(h, ToU64(Head(bytes))), HashPrime), Tail(bytes))

\* stable_hash_u64(turn_index, s), s given by its UTF-8 bytes
stable_hash_u64(seed, bytes) == HashBytes(XorU64(HashOffsetBasis, ToU64(seed)), bytes)

----------------------------------------------------------------------------
(* The World (src/src/world/model.rs): immutable after load.               *)

RoomLoc(r) == [k |-> "Room", id |-> r]
InventoryLoc == [k |-> "Inventory", id |-> ""]
ItemLoc(i) == [k |-> "Item", id |-> i]
NpcLoc(n) == [k |-> "Npc", id |-> n]

Some(v) == [some |-> TRUE, val |-> v]
None == [some |-> FALSE, val |-> 0]

NoText == <<>>

Action(id, verbs, nouns, response, effects, conditions, scope, inv) ==
  [id |-> id, verbs |-> verbs, nouns |-> nouns, response |-> response,
   effects |-> effects, conditions |-> conditions,
   scope_requirements |-> scope, requires_inventory |-> inv]

Exit(direction, target, verbs, conditions) ==
  [direction |-> direction, target |-> target, verbs |-> verbs,
   conditions |-> conditions]

SimpleProps ==
  [capacity |-> None, conditions |-> <<>>, complete_when |-> <<>>,
   complete_flag |-> [some |-> FALSE, val |-> Pos("")], closed_text |-> NoText,
   complete_text |-> [some |-> FALSE, val |-> NoText], verbs |-> <<>>, prep |-> ""]

Item(id, name, aliases, room_text, conditions, portable, kind, props, start) ==
  [id |-> id, name |-> name, aliases |-> aliases, room_text |-> room_text,
   inventory_text |-> NoText, examine_text |-> NoText,
   conditions |-> conditions, portable |-> portable, kind |-> kind,
   props |-> props, start_location |-> start]

ChestProps ==
  [capacity |-> Some(1), conditions |-> <<>>, complete_when |-> <<"gem">>,
   complete_flag |-> [some |-> TRUE, val |-> Pos("chest_done")],
   closed_text |-> <<"It is currently closed.">>,
   complete_text |-> [some |-> TRUE, val |-> <<"The chest hums.">>],
   verbs |-> <<"put">>, prep |-> "in"]

UrnProps ==
  [capacity |-> Some(0), conditions |-> <<Pos("lever")>>, complete_when |-> <<>>,
   complete_flag |-> [some |-> FALSE, val |-> Pos("")],
   closed_text |-> <<"The urn is sealed.">>,
   complete_text |-> [some |-> FALSE, val |-> NoText],
   verbs |-> <<"put">>, prep |-> "in"]

BoxProps ==
  [capacity |-> None, conditions |-> <<>>, complete_when |-> <<>>,
   complete_flag |-> [some |-> TRUE, val |-> Pos("box_done")],
   closed_text |-> <<"It is currently closed.">>,
   complete_text |-> [some |-> FALSE, val |-> NoText],
   verbs |-> <<"put">>, prep |-> "in"]

HallActions ==
  << Action("pull_lever", << <<"pull">> >>, << <<"lever">> >>, <<"The lever clicks.">>,
            <<Pos("lever")>>, <<>>, <<>>, <<>>),
     Action("ring_soft", << <<"ring">> >>, <<>>, <<"A soft chime.">>,
            <<Pos("lever")>>, <<>>, <<>>, <<>>),
     Action("ring_loud", << <<"ring">> >>, <<>>, <<"A loud clang.">>,
            <<Neg("lever")>>, <<>>, <<>>, <<>>),
     Action("ring_bell", << <<"ring">> >>, << <<"bell">> >>, <<"The bell tolls.">>,
            <<Neg("lever")>>, <<>>, <<"bell">>, <<>>),
     Action("polish", << <<"polish">> >>, <<>>, <<"You polish the chest.">>,
            <<Neg("lever")>>, <<>>, <<"chest">>, <<>>),
     Action("polish_key", << <<"polish">> >>, <<>>, <<"You polish the chest with the key.">>,
            <<Pos("lever")>>, <<>>, <<"chest">>, <<"key">>),
     Action("polish_both", << <<"polish">> >>, <<>>, <<"You polish the chest and the urn.">>,
            <<Pos("hurt")>>, <<>>, <<"chest", "urn">>, <<>>),
     Action("stride", << <<"go">> >>, <<>>, <<"You stride about.">>,
            <<Pos("hurt")>>, <<>>, <<>>, <<>>) >>

YardActions ==
  << Action("wax", << <<"polish">> >>, <<>>, <<"You wax the key.">>,
            <<>>, <<>>, <<>>, <<"key">>),
     Action("rub", << <<"polish">> >>, <<>>, <<"You rub the chest.">>,
            <<>>, <<>>, <<"chest">>, <<>>),
     Action("buff", << <<"polish">> >>, << <<"chest">> >>, <<"You buff the air.">>,
            <<>>, <<Neg("lever")>>, <<>>, <<>>),
     Action("scour", << <<"polish">> >>, <<>>, <<"You scour the chest and the urn.">>,
            <<>>, <<>>, <<"chest", "urn">>, <<"key">>) >>

GuardActions ==
  << Action("bribe", << <<"bribe">> >>, <<>>, <<"The guard pockets the coin and leaves.">>,
            <<Pos("guard_gone")>>, <<>>, <<>>, <<"coin">>),
     Action("greet_a", << <<"greet">> >>, <<>>, <<"The guard nods.">>,
            <<Pos("lever")>>, <<>>, <<>>, <<>>),
     Action("greet_b", << <<"greet">> >>, <<>>, <<"The guard grunts.">>,
            <<Pos("hurt")>>, <<>>, <<>>, <<>>) >>

GlobalActions ==
  << Action("dance", << <<"dance">> >>, <<>>, <<"You dance.">>,
            <<>>, <<Neg("hurt")>>, <<>>, <<>>),
     Action("sing_a", << <<"sing">> >>, <<>>, <<"You sing high.">>,
            <<Neg("hurt")>>, <<Pos("hurt")>>, <<>>, <<>>),
     Action("sing_b", << <<"sing">> >>, <<>>, <<"You sing low.">>,
            <<>>, <<>>, <<>>, <<>>),
     Action("toll", << <<"ring">> >>, <<>>, <<"A bell tolls far away.">>,
            <<Pos("hurt")>>, <<>>, <<"bell">>, <<>>) >>

Npc(id, bytes, name, start_room, room_text, conditions, actions, roam, block_movement, block_conditions, block_text, foe, attack_chance_percent, attack_effects, dialogue) ==
  [id |-> id, bytes |-> bytes, name |-> name, aliases |-> <<>>, start_room |-> start_room,
   room_text |-> room_text, examine_text |-> NoText, conditions |-> conditions,
   actions |-> actions, roam |-> roam, block_movement |-> block_movement,
   block_conditions |-> block_conditions, block_text |-> block_text,
   block_exits |-> <<>>, foe |-> foe, attack_chance_percent |-> attack_chance_percent,
   attack_text |-> [some |-> FALSE, val |-> NoText], attack_effects |-> attack_effects,
   dialogue |-> dialogue]

NoRoam == [some |-> FALSE, val |-> [enabled |-> FALSE, allowed_rooms |-> <<>>, chance_percent |-> 0]]

World ==
  [ start_room |-> "hall",
    rooms |->
      [ hall |-> [id |-> "hall", name |-> <<"Hall">>, desc |-> <<"A stone hall.">>,
                  exits |-> << Exit("north", "yard", <<"leave", "slip">>, <<>>),
                              Exit("up", "attic", <<"leave", "slip">>, <<>>),
                              Exit("down", "yard", <<"go">>, <<Pos("chest_done")>>) >>,
                  actions |-> HallActions,
                  state_descs |-> << [conditions |-> <<Pos("lever")>>,
                                      text |-> <<"The lever is down.">>],
                                     [conditions |-> <<Pos("chest_done")>>,
                                      text |-> <<"The chest glows.">>] >>],
        yard |-> [id |-> "yard", name |-> <<"Yard">>, desc |-> <<"A windy yard.">>,
                  exits |-> << Exit("south", "hall", <<>>, <<>>),
                              Exit("up", "yard", <<>>, <<>>) >>,
                  actions |-> YardActions,
                  state_descs |-> << [conditions |-> <<Pos("windy")>>,
                                      text |-> <<"The wind howls.">>],
                                     [conditions |-> <<Pos("cold")>>,
                                      text |-> <<"Your breath steams.">>] >>] ],
    items |->
      [ key    |-> Item("key", <<"brass", "key">>, << <<"old">> >>, <<"A brass key lies here.">>,
                        <<>>, TRUE, "Simple", SimpleProps, RoomLoc("hall")),
        gem    |-> Item("gem", <<"gem">>, << <<"red", "stone">>, <<"old">> >>, <<"A gem glitters.">>,
                        <<>>, TRUE, "Simple", SimpleProps, InventoryLoc),
        coin   |-> Item("coin", <<"coin">>, << <<"old">> >>, NoText,
                        <<>>, TRUE, "Simple", SimpleProps, InventoryLoc),
        chest  |-> Item("chest", <<"chest">>, << <<"old">> >>, <<"A chest sits here.">>,
                        <<>>, FALSE, "Container", ChestProps, RoomLoc("hall")),
        urn    |-> Item("urn", <<"urn">>, << <<"Old">> >>, NoText,
                        <<>>, FALSE, "Container", UrnProps, RoomLoc("hall")),
        pebble |-> Item("pebble", <<"pebble">>, <<>>, NoText,
                        <<>>, FALSE, "Simple", SimpleProps, ItemLoc("urn")),
        bell   |-> Item("bell", <<"bell">>, <<>>, <<"A bell hangs here.">>,
                        <<Pos("lever")>>, FALSE, "Simple", SimpleProps, RoomLoc("hall")),
        box    |-> Item("box", <<"box">>, <<>>, NoText,
                        <<>>, TRUE, "Container", BoxProps, InventoryLoc) ],
    npcs |->
      [ guard |-> [Npc("guard", <<103, 117, 97, 114, 100>>, <<"guard">>, "hall",
                      <<"A guard stands here.">>, <<>>, GuardActions,
                      [some |-> TRUE, val |-> [enabled |-> FALSE,
                                               allowed_rooms |-> <<"yard">>,
                                               chance_percent |-> 100]],
                      TRUE, <<Neg("guard_gone")>>, [some |-> FALSE, val |-> NoText],
                      TRUE, 50, <<Pos("hurt")>>,
                      << [id |-> "hello", conditions |-> <<>>, response |-> <<"Halt.">>,
                          effects |-> <<>>, one_shot |-> TRUE],
                         [id |-> "again", conditions |-> <<>>,
                          response |-> <<"Move along.">>,
                          effects |-> <<>>, one_shot |-> FALSE] >>)
                   EXCEPT !.aliases = << <<"big", "man">> >>],
        dog   |-> [Npc("dog", <<100, 111, 103>>, <<"dog">>, "hall",
                      <<"A dog dozes here.">>, <<>>, <<>>,
                      [some |-> TRUE, val |-> [enabled |-> TRUE,
                                               allowed_rooms |-> <<"attic">>,
                                               chance_percent |-> 30]],
                      TRUE, <<Neg("lever")>>, [some |-> TRUE, val |-> <<"The dog growls.">>],
                      FALSE, 0, <<>>, <<>>) EXCEPT !.block_exits = <<"NORTH">>,
                                                   !.aliases = << <<"big">> >>],
        cat   |-> Npc("cat", <<99, 97, 116>>, <<"cat">>, "yard",
                      <<"A cat prowls here.">>, <<>>, <<>>,
                      [some |-> TRUE, val |-> [enabled |-> TRUE,
                                               allowed_rooms |-> <<"attic", "yard", "hall">>,
                                               chance_percent |-> 70]],
                      FALSE, <<>>, [some |-> FALSE, val |-> NoText],
                      FALSE, 0, <<>>, <<>>) ],
    global_conditions |->
      << [id |-> "faint", conditions |-> <<Pos("hurt")>>, allowed_rooms |-> <<>>,
          disallowed_rooms |-> <<>>, response |-> <<"You feel faint.">>,
          effects |-> <<>>, one_shot |-> TRUE],
         [id |-> "chill", conditions |-> <<Pos("windy")>>, allowed_rooms |-> <<>>,
          disallowed_rooms |-> <<"hall">>, response |-> <<"You shiver.">>,
          effects |-> <<Pos("cold")>>, one_shot |-> TRUE],
         [id |-> "rattle", conditions |-> <<Pos("chest_done"), Neg("guard_gone")>>,
          allowed_rooms |-> <<>>, disallowed_rooms |-> <<>>,
          response |-> <<"The chest rattles.">>,
          effects |-> <<Neg("chest_done")>>, one_shot |-> FALSE],
         [id |-> "breeze", conditions |-> <<>>, allowed_rooms |-> <<"yard">>,
          disallowed_rooms |-> <<>>, response |-> <<"A breeze picks up.">>,
          effects |-> <<Pos("windy")>>, one_shot |-> TRUE],
         [id |-> "gust", conditions |-> <<Pos("windy")>>, allowed_rooms |-> <<>>,
          disallowed_rooms |-> <<>>, response |-> <<"Leaves swirl.">>,
          effects |-> <<>>, one_shot |-> TRUE] >>,
    global_actions |-> GlobalActions ]

\* GameState.world: the loaded world, never written after construction
VARIABLE world

RoomIds == DOMAIN world.rooms
ItemIds == DOMAIN world.items
NpcIds == DOMAIN world.npcs

----------------------------------------------------------------------------
(* Output (src/src/engine/output.rs): an ordered list of typed blocks.     *)

\* s.trim().is_empty()
IsBlank(text) == \A i \in 1..Len(text) : text[i] \in {"", " "}

Block(kind, text) == [kind |-> kind, text |-> text]

ExitsPos(blocks) ==
  IF \E i \in 1..Len(blocks) : blocks[i].kind = "Exits"
  THEN CHOOSE i \in 1..Len(blocks) :
         /\ blocks[i].kind = "Exits"
         /\ \A j \in 1..(i - 1) : blocks[j].kind # "Exits"
  ELSE 0

\* Vec::insert(pos, b) with pos counted from 1
InsertAt(blocks, pos, b) ==
  SubSeq(blocks, 1, pos - 1) \o <<b>> \o SubSeq(blocks, pos, Len(blocks))

\* a body that always appends, wherever the Exits block is
PushBlockAtEnd(blocks, kind, text) ==
  IF IsBlank(text) THEN blocks ELSE Append(blocks, Block(kind, text))

\* the common body of title / say / event
PushBlock(blocks, kind, text) ==
  IF IsBlank(text) THEN blocks
  ELSE IF ExitsPos(blocks) > 0
       THEN InsertAt(blocks, ExitsPos(blocks), Block(kind, text))
       ELSE Append(blocks, Block(kind, text))

title(blocks, text) == PushBlock(blocks, "Title", text)
say(blocks, text) == PushBlock(blocks, "Text", text)
event(blocks, text) == PushBlock(blocks, "Event", text)

IsNotExits(b) == b.kind # "Exits"

set_exits(blocks, text) ==
  IF IsBlank(text) THEN blocks
  ELSE Append(SelectSeq(blocks, IsNotExits), Block("Exits", text))

RECURSIVE SayAll(_, _)
SayAll(blocks, texts) ==
  IF texts = <<>> THEN blocks ELSE SayAll(say(blocks, Head(texts)), Tail(texts))

Said(blocks, text) == \E i \in 1..Len(blocks) : blocks[i] = Block("Text", text)

----------------------------------------------------------------------------
(* Item / NPC locator (items.rs, npcs.rs).                                  *)
(* A working record w carries the GameState fields (room, flags, locs,     *)
(* npcs, fired_gc, fired_dlg, turn, action), the iteration orders (io, no) *)
(* and the Output under construction (out), plus what the step observed.   *)

NoMatch == [kind |-> "None", ids |-> <<>>]
One(id) == [kind |-> "One", ids |-> <<id>>]
Many(ids) == [kind |-> "Many", ids |-> ids]

\* item ids / npc ids in the order of String::cmp on their names
ItemsByName == <<"bell", "box", "key", "chest", "coin", "gem", "pebble", "urn">>
NpcsByName == <<"cat", "dog", "guard">>

SortByName(ids, byName) ==
  LET Keep(id) == id \in Range(ids) IN SelectSeq(byName, Keep)

\* number of query words found among the entity's words
WordScore(all_words, query_words) ==
  Cardinality({ i \in 1..Len(query_words) : query_words[i] \in Range(all_words) })

AllWords(entity) ==
  LowerAll(entity.name)
    \o Concat([i \in 1..Len(entity.aliases) |-> LowerAll(entity.aliases[i])])

HasLoc(locs, id) == id \in DOMAIN locs

\* the tail of both locators: keep the candidates at the maximum score
\* score maps each scored id to its score
BestOf(scored, score, max_score) ==
  LET IsBest(id) == score[id] = max_score IN SelectSeq(scored, IsBest)

\* a locator that settles a tie on the first candidate it scored
AsMatchFirst(best, byName) ==
  IF best = <<>> THEN NoMatch ELSE One(best[1])

AsMatch(best, byName) ==
  IF best = <<>> THEN NoMatch
  ELSE IF Len(best) = 1 THEN One(best[1])
  ELSE Many(SortByName(best, byName))

Locate(scored, score, byName) ==
  IF scored = <<>> THEN NoMatch
  ELSE AsMatch(BestOf(scored, score,
                      MaxSeq([i \in 1..Len(scored) |-> score[scored[i]]])),
               byName)

\* filter: the located items that the caller's filter closure accepts
find_item_by_words_scored(w, flags, query, filter, respect_conditions) ==
  LET Score(id) == WordScore(AllWords(world.items[id]), LowerAll(query))
      Cand(id) ==
        /\ HasLoc(w.locs, id)
        /\ id \in filter
        /\ (respect_conditions => conditions_met(world.items[id].conditions, flags))
        /\ Score(id) > 0
  IN  IF LowerAll(query) = <<>> THEN NoMatch
      ELSE Locate(SelectSeq(w.io, Cand), [id \in ItemIds |-> Score(id)], ItemsByName)

find_item(w, query, filter) ==
  find_item_by_words_scored(w, w.flags, query, filter, TRUE)

find_item_ignore_conditions(w, query, filter) ==
  find_item_by_words_scored(w, {}, query, filter, FALSE)

find_npc_by_words_scored(w, query) ==
  LET Score(id) == WordScore(AllWords(world.npcs[id]), LowerAll(query))
      Cand(id) ==
        /\ id \in DOMAIN w.npcs
        /\ w.npcs[id] = w.room
        /\ conditions_met(world.npcs[id].conditions, w.flags)
        /\ Score(id) > 0
  IN  IF LowerAll(query) = <<>> THEN NoMatch
      ELSE Locate(SelectSeq(w.no, Cand), [id \in NpcIds |-> Score(id)], NpcsByName)

\* HashMap::insert / HashMap::remove on item_locations
SetLoc(locs, id, loc) ==
  [i \in (DOMAIN locs) \cup {id} |-> IF i = id THEN loc ELSE locs[i]]

RemoveLoc(locs, id) == [i \in (DOMAIN locs) \ {id} |-> locs[i]]

Say(w, text) == [w EXCEPT !.out = say(@, text)]

InCurrentRoom(w, loc) == loc.k = "Room" /\ loc.id = w.room
InScope(w, loc) == InCurrentRoom(w, loc) \/ loc.k = "Inventory"
InContainer(loc, cid) == loc.k = "Item" /\ loc.id = cid

\* the closures the handlers pass as filter
InRoomItems(w) == { id \in DOMAIN w.locs : InCurrentRoom(w, w.locs[id]) }

CarriedItems(w) == { id \in DOMAIN w.locs : w.locs[id].k = "Inventory" }

----------------------------------------------------------------------------
(* Item verbs (src/src/engine/items.rs)                                     *)

Period == <<".">>

handle_inventory(w) ==
  LET Carried(id) == HasLoc(w.locs, id) /\ w.locs[id].k = "Inventory"
      carried == SelectSeq(ItemsByName, Carried)
      Line(id) == IF IsBlank(world.items[id].inventory_text)
                  THEN <<"  ">> \o world.items[id].name
                  ELSE <<"  ">> \o world.items[id].inventory_text
  IN  IF carried = <<>> THEN Say(w, <<"You are carrying nothing.">>)
      ELSE [w EXCEPT !.out = SayAll(say(@, <<"You are carrying:">>),
                                    [i \in 1..Len(carried) |-> Line(carried[i])])]

\* a take that announces the item without moving it
handle_take_in_words(w, target_name) ==
  LET result == find_item(w, LowerAll(target_name), InRoomItems(w))
  IN  IF result.kind = "None" THEN Say(w, <<"You don't see that here.">>)
      ELSE IF result.kind = "Many" THEN Say(w, <<"Be more specific.">>)
      ELSE Say([w EXCEPT !.tgt_item = result.ids[1]],
               <<"You take the">> \o world.items[result.ids[1]].name \o Period)

handle_take(w, target_name) ==
  LET query == LowerAll(target_name)
      result == find_item(w, query, InRoomItems(w))
  IN  IF query = <<>> THEN Say(w, <<"Take what?">>)
      ELSE IF result.kind = "None" THEN Say(w, <<"You don't see that here.">>)
      ELSE IF result.kind = "Many" THEN Say(w, <<"Be more specific.">>)
      ELSE LET item == world.items[result.ids[1]]
               w1 == [w EXCEPT !.tgt_item = item.id]
           IN  IF ~item.portable
               THEN Say(w1, <<"You can't take the">> \o item.name \o Period)
               ELSE Say([w1 EXCEPT !.locs = SetLoc(@, item.id, InventoryLoc)],
                        <<"You take the">> \o item.name \o Period)

RECURSIVE TakeEach(_, _, _)
TakeEach(w, ids, suffix) ==
  IF ids = <<>> THEN w
  ELSE LET item == world.items[Head(ids)]
       IN  TakeEach(Say([w EXCEPT !.locs = SetLoc(@, item.id, InventoryLoc)],
                        <<"You take the">> \o item.name \o suffix),
                    Tail(ids), suffix)

handle_take_all_room(w) ==
  LET Takeable(id) ==
        /\ HasLoc(w.locs, id)
        /\ InCurrentRoom(w, w.locs[id])
        /\ conditions_met(world.items[id].conditions, w.flags)
        /\ world.items[id].portable
      to_take == SelectSeq(w.io, Takeable)
  IN  IF to_take = <<>> THEN Say(w, <<"There is nothing here you can take.">>)
      ELSE TakeEach(w, to_take, Period)

handle_drop(w, target_name) ==
  LET query == LowerAll(target_name)
      result == find_item_ignore_conditions(w, query, CarriedItems(w))
  IN  IF query = <<>> THEN Say(w, <<"Drop what?">>)
      ELSE IF result.kind = "None" THEN Say(w, <<"You aren't carrying that.">>)
      ELSE IF result.kind = "Many" THEN Say(w, <<"Be more specific.">>)
      ELSE LET item == world.items[result.ids[1]]
           IN  Say([w EXCEPT !.locs = SetLoc(@, item.id, RoomLoc(w.room)),
                             !.tgt_item = item.id],
                   <<"You drop the">> \o item.name \o Period)

RECURSIVE DropEach(_, _)
DropEach(w, ids) ==
  IF ids = <<>> THEN w
  ELSE LET item == world.items[Head(ids)]
       IN  DropEach(Say([w EXCEPT !.locs = SetLoc(@, item.id, RoomLoc(w.room))],
                        <<"You drop the">> \o item.name \o Period),
                    Tail(ids))

handle_drop_all(w) ==
  LET Droppable(id) ==
        /\ HasLoc(w.locs, id)
        /\ w.locs[id].k = "Inventory"
        /\ world.items[id].portable
      to_drop == SelectSeq(w.io, Droppable)
  IN  IF to_drop = <<>> THEN Say(w, <<"You aren't carrying anything you can drop.">>)
      ELSE DropEach(w, to_drop)

\* the container lookup shared by the two take-from-container handlers
FindContainer(w, container_query) ==
  find_item(w, container_query,
            { id \in DOMAIN w.locs :
                world.items[id].kind = "Container" /\ InScope(w, w.locs[id]) })

\* a container whose interaction conditions are never consulted
ContainerNeverClosed(props, flags) == FALSE

ContainerClosed(props, flags) ==
  props.conditions # <<>> /\ ~conditions_met(props.conditions, flags)

FromThe(container) == <<"from the">> \o container.name \o Period

\* a retrieval that leaves the item on the floor of the room
TakeFoundToRoom(w, container, item_result) ==
  IF item_result.kind # "One" THEN Say(w, <<"Be more specific about what to take.">>)
  ELSE Say([w EXCEPT !.tgt_item = item_result.ids[1],
                     !.locs = SetLoc(@, item_result.ids[1], RoomLoc(w.room))],
           <<"You take the">> \o world.items[item_result.ids[1]].name \o FromThe(container))

\* a take from a container that does not ask whether the item is portable
TakeFoundAnything(w, container, item_result) ==
  IF item_result.kind = "None"
  THEN Say(w, <<"You don't see anything like that in the">> \o container.name \o Period)
  ELSE IF item_result.kind = "Many"
       THEN Say(w, <<"Be more specific about what to take.">>)
  ELSE Say([w EXCEPT !.tgt_item = item_result.ids[1],
                     !.locs = SetLoc(@, item_result.ids[1], InventoryLoc)],
           <<"You take the">> \o world.items[item_result.ids[1]].name \o FromThe(container))

\* handle_take_from_container once the item inside has been looked up
TakeFound(w, container, item_result) ==
  IF item_result.kind = "None"
  THEN Say(w, <<"You don't see anything like that in the">> \o container.name \o Period)
  ELSE IF item_result.kind = "Many"
       THEN Say(w, <<"Be more specific about what to take.">>)
  ELSE IF ~world.items[item_result.ids[1]].portable
       THEN Say([w EXCEPT !.tgt_item = item_result.ids[1]],
                <<"You can't take the">> \o world.items[item_result.ids[1]].name \o Period)
  ELSE Say([w EXCEPT !.tgt_item = item_result.ids[1],
                     !.locs = SetLoc(@, item_result.ids[1], InventoryLoc)],
           <<"You take the">> \o world.items[item_result.ids[1]].name \o FromThe(container))

\* handle_take_from_container once the container has been looked up
TakeFromFound(w, item_query, container_result) ==
  IF container_result.kind = "None"
  THEN Say(w, <<"You don't see any container like that here.">>)
  ELSE IF container_result.kind = "Many"
       THEN Say(w, <<"Be more specific about which container.">>)
  ELSE LET container == world.items[container_result.ids[1]]
       IN  IF ContainerClosed(container.props, w.flags)
           THEN Say([w EXCEPT !.tgt_cont = container.id], container.props.closed_text)
           ELSE TakeFound([w EXCEPT !.tgt_cont = container.id], container,
                          find_item(w, item_query,
                                    { id \in DOMAIN w.locs :
                                        InContainer(w.locs[id], container.id) }))

handle_take_from_container(w, item_name, container_name) ==
  IF LowerAll(item_name) = <<>> THEN Say(w, <<"Take what?">>)
  ELSE IF LowerAll(container_name) = <<>> THEN Say(w, <<"Take it from where?">>)
  ELSE TakeFromFound(w, LowerAll(item_name), FindContainer(w, LowerAll(container_name)))

\* handle_take_all_from_container once the container has been looked up
TakeAllFromFound(w, container_match) ==
  IF container_match.kind = "None"
  THEN Say(w, <<"You don't see any container like that here.">>)
  ELSE IF container_match.kind = "Many"
       THEN Say(w, <<"Be more specific about which container.">>)
  ELSE LET container == world.items[container_match.ids[1]]
           w1 == [w EXCEPT !.tgt_cont = container.id]
           Takeable(id) ==
             /\ HasLoc(w.locs, id)
             /\ InContainer(w.locs[id], container.id)
             /\ conditions_met(world.items[id].conditions, w.flags)
             /\ world.items[id].portable
       IN  IF ContainerClosed(container.props, w.flags)
           THEN Say(w1, container.props.closed_text)
           ELSE IF SelectSeq(w.io, Takeable) = <<>>
                THEN Say(w1, <<"There is nothing in the">> \o container.name
                               \o <<"you can take.">>)
           ELSE TakeEach(w1, SelectSeq(w.io, Takeable), FromThe(container))

handle_take_all_from_container(w, container_name) ==
  IF LowerAll(container_name) = <<>> THEN Say(w, <<"Take all from where?">>)
  ELSE TakeAllFromFound(w, FindContainer(w, LowerAll(container_name)))

Occupants(locs, cid) == { i \in DOMAIN locs : InContainer(locs[i], cid) }

StoreText(verb_l, item, container) ==
  <<"You", verb_l, "the">> \o item.name \o <<container.props.prep, "the">>
    \o container.name \o Period

FullText(container) == <<"The">> \o container.name \o <<"is full.">>

\* a completion check that does not look at the completion flag
check_container_completion_again(w, container_id) ==
  IF container_id \notin ItemIds THEN w
  ELSE LET props == world.items[container_id].props
           Placed(i) ==
             /\ HasLoc(w.locs, props.complete_when[i])
             /\ InContainer(w.locs[props.complete_when[i]], container_id)
       IN  IF ~props.complete_flag.some \/ props.complete_when = <<>> THEN w
           ELSE IF ~(\A i \in 1..Len(props.complete_when) : Placed(i)) THEN w
           ELSE Say([w EXCEPT !.flags = @ \cup {props.complete_flag.val},
                              !.completed = @ \cup {container_id}],
                    props.complete_text.val)

\* a completion check that takes an empty list of required items as met
check_container_completion_vacuous(w, container_id) ==
  IF container_id \notin ItemIds THEN w
  ELSE LET props == world.items[container_id].props
           Placed(i) ==
             /\ HasLoc(w.locs, props.complete_when[i])
             /\ InContainer(w.locs[props.complete_when[i]], container_id)
       IN  IF world.items[container_id].kind # "Container" THEN w
           ELSE IF ~props.complete_flag.some THEN w
           ELSE IF props.complete_flag.val \in w.flags THEN w
           ELSE IF ~(\A i \in 1..Len(props.complete_when) : Placed(i)) THEN w
           ELSE LET w1 == [w EXCEPT !.flags = @ \cup {props.complete_flag.val},
                                    !.completed = @ \cup {container_id}]
                IN  IF props.complete_text.some
                    THEN Say(w1, props.complete_text.val)
                    ELSE w1

check_container_completion(w, container_id) ==
  IF container_id \notin ItemIds THEN w
  ELSE LET container == world.items[container_id]
           props == container.props
           Placed(i) ==
             /\ HasLoc(w.locs, props.complete_when[i])
             /\ InContainer(w.locs[props.complete_when[i]], container_id)
       IN  IF container.kind # "Container" THEN w
           ELSE IF ~props.complete_flag.some THEN w
           ELSE IF props.complete_when = <<>> THEN w
           ELSE IF props.complete_flag.val \in w.flags THEN w
           ELSE IF ~(\A i \in 1..Len(props.complete_when) : Placed(i)) THEN w
           ELSE LET w1 == [w EXCEPT !.flags = @ \cup {props.complete_flag.val},
                                    !.completed = @ \cup {container_id}]
                IN  IF props.complete_text.some
                    THEN Say(w1, props.complete_text.val)
                    ELSE w1

SupportsVerb(props, verb_l) ==
  \E i \in 1..Len(props.verbs) : Lower(props.verbs[i]) = verb_l

\* a store that never looks at the container's capacity
StoreIntoUnbounded(h, verb_l, item, container) ==
  IF ContainerClosed(container.props, h.flags)
  THEN Say(h, container.props.closed_text)
  ELSE check_container_completion(
         Say([h EXCEPT !.locs = SetLoc(@, item.id, ItemLoc(container.id))],
             StoreText(verb_l, item, container)),
         container.id)

\* try_handle_container_store once item and container have been resolved
StoreInto(h, verb_l, item, container) ==
  IF ContainerClosed(container.props, h.flags)
  THEN Say(h, container.props.closed_text)
  ELSE IF /\ container.props.capacity.some
          /\ Cardinality(Occupants(h.locs, container.id)) >= container.props.capacity.val
       THEN Say(h, FullText(container))
  ELSE check_container_completion(
         Say([h EXCEPT !.locs = SetLoc(@, item.id, ItemLoc(container.id))],
             StoreText(verb_l, item, container)),
         container.id)

\* try_handle_container_store once the carried item is known
StoreItem(h, verb_l, item, cont_match) ==
  IF ~item.portable
  THEN Say(h, <<"You can't", verb_l, "the">> \o item.name \o Period)
  ELSE IF cont_match.kind = "None"
       THEN Say(h, <<"Where do you want to", verb_l, "the">> \o item.name \o <<"?">>)
  ELSE IF cont_match.kind = "Many"
       THEN Say(h, <<"Be more specific about where you want to", verb_l, "it.">>)
  ELSE StoreInto([h EXCEPT !.tgt_cont = cont_match.ids[1]], verb_l, item,
                 world.items[cont_match.ids[1]])

\* try_handle_container_store once the item has been looked up
StoreFound(h, verb_l, query, item_match) ==
  LET Target ==
        { id \in DOMAIN h.locs :
            /\ InScope(h, h.locs[id])
            /\ world.items[id].kind = "Container"
            /\ SupportsVerb(world.items[id].props, verb_l) }
  IN  IF item_match.kind = "None"
      THEN Say(h, <<"You aren't carrying anything like that.">>)
      ELSE IF item_match.kind = "Many"
           THEN Say(h, <<"Be more specific about what you want to", verb_l, ".">>)
      ELSE StoreItem([h EXCEPT !.tgt_item = item_match.ids[1]], verb_l,
                     world.items[item_match.ids[1]], find_item(h, query, Target))

try_handle_container_store(w, verb, rest) ==
  LET Supports(id) ==
        /\ HasLoc(w.locs, id)
        /\ InScope(w, w.locs[id])
        /\ conditions_met(world.items[id].conditions, w.flags)
        /\ world.items[id].kind = "Container"
        /\ SupportsVerb(world.items[id].props, Lower(verb))
  IN  IF Lower(verb) = "" THEN w
      ELSE IF ~(\E i \in 1..Len(w.io) : Supports(w.io[i])) THEN w
      ELSE IF LowerAll(rest) = <<>>
           THEN Say([w EXCEPT !.handled = TRUE], <<"What do you want to", Lower(verb), "?">>)
      ELSE StoreFound([w EXCEPT !.handled = TRUE], Lower(verb), LowerAll(rest),
                      find_item_ignore_conditions(w, LowerAll(rest), CarriedItems(w)))

handle_examine(w, target_name) ==
  LET query == LowerAll(target_name)
      inv_match == find_item_ignore_conditions(w, query, CarriedItems(w))
      room_match == find_item(w, query, InRoomItems(w))
      Describe(item) ==
        LET w1 == IF IsBlank(item.examine_text)
                  THEN Say(w, <<"You see nothing special about the">> \o item.name \o Period)
                  ELSE Say(w, item.examine_text)
            Visible(id) ==
              /\ HasLoc(w.locs, id)
              /\ InContainer(w.locs[id], item.id)
              /\ conditions_met(world.items[id].conditions, w.flags)
            contents == SelectSeq(ItemsByName, Visible)
        IN  IF item.kind # "Container" THEN w1
            ELSE IF ContainerClosed(item.props, w.flags) THEN Say(w1, item.props.closed_text)
            ELSE IF contents = <<>> THEN Say(w1, <<"It is currently empty.">>)
            ELSE Say(w1, <<"Inside it you see:">>
                           \o Concat([i \in 1..Len(contents) |-> world.items[contents[i]].name])
                           \o Period)
  IN  IF query = <<>> THEN Say(w, <<"Examine what?">>)
      ELSE IF inv_match.kind = "Many" THEN Say(w, <<"Be more specific.">>)
      ELSE IF inv_match.kind = "One" THEN Describe(world.items[inv_match.ids[1]])
      ELSE IF room_match.kind = "None" THEN Say(w, <<"You see nothing like that here.">>)
      ELSE IF room_match.kind = "Many" THEN Say(w, <<"Be more specific.">>)
      ELSE Describe(world.items[room_match.ids[1]])

----------------------------------------------------------------------------
(* Action resolver (src/src/engine/actions.rs)                              *)

tokenize(input) == LowerAll(input)

phrase_matches_tokens(phrase, tokens) ==
  LET words == LowerAll(phrase)
  IN  words # <<>> /\ \A i \in 1..Len(words) : words[i] \in Range(tokens)

phrase_match_score(phrase, tokens) ==
  IF phrase_matches_tokens(phrase, tokens) THEN Len(phrase) ELSE 0

BestPhraseScore(phrases, tokens) ==
  MaxSeq([i \in 1..Len(phrases) |-> phrase_match_score(phrases[i], tokens)])

item_in_room(item_id, locs, room_id) ==
  HasLoc(locs, item_id) /\ locs[item_id] = RoomLoc(room_id)

item_in_inventory(item_id, locs) ==
  HasLoc(locs, item_id) /\ locs[item_id].k = "Inventory"

\* a mention test that accepts the words of the aliases too
input_mentions_item_words(item, tokens) ==
  \E i \in 1..Len(AllWords(item)) : AllWords(item)[i] \in Range(tokens)

input_mentions_item_name(item, tokens) ==
  \E i \in 1..Len(item.name) : Lower(item.name[i]) \in Range(tokens)

RequiredNames(ids) ==
  [i \in 1..Len(ids) |-> IF ids[i] \in ItemIds THEN world.items[ids[i]].name
                         ELSE <<ids[i]>>]

missing_inventory_message(action) ==
  LET names == RequiredNames(action.requires_inventory)
  IN  IF action.requires_inventory = <<>> THEN <<"You don't have what you need.">>
      ELSE IF Len(names) = 1 THEN <<"You need the">> \o names[1] \o Period
      ELSE <<"You need:">> \o Concat(names) \o Period

missing_scope_message(action) ==
  LET names == RequiredNames(action.scope_requirements)
  IN  IF action.scope_requirements = <<>> THEN <<"You don't see that here.">>
      ELSE IF Len(names) = 1 THEN <<"You don't see the">> \o names[1] \o <<"here.">>
      ELSE <<"You don't see those here:">> \o Concat(names) \o Period

\* the scope-requirement loop: [ok, mentioned, score], left at the first unknown id
RECURSIVE ScopeLoop(_, _, _, _, _)
ScopeLoop(reqs, tokens, locs, room_id, acc) ==
  IF reqs = <<>> THEN acc
  ELSE IF Head(reqs) \notin ItemIds
       THEN [acc EXCEPT !.ok = FALSE, !.mentioned = FALSE]
  ELSE LET item == world.items[Head(reqs)]
           a1 == IF item_in_room(Head(reqs), locs, room_id) THEN acc
                 ELSE [acc EXCEPT !.ok = FALSE]
           a2 == IF input_mentions_item_name(item, tokens)
                 THEN [a1 EXCEPT !.score = @ + 3]
                 ELSE [a1 EXCEPT !.mentioned = FALSE]
       IN  ScopeLoop(Tail(reqs), tokens, locs, room_id, a2)

\* a verdict that takes the intent for strong whatever the input mentions
VerdictAlwaysStrong(action, verb_score, noun_best, scope, held, cond_ok) ==
  LET inv_ok == held = Len(action.requires_inventory)
  IN  [ skipped |-> verb_score = 0 \/ (action.nouns # <<>> /\ noun_best = 0),
        total_score |-> verb_score + (IF action.nouns = <<>> THEN 0 ELSE noun_best)
                          + scope.score + (2 * held),
        executable |-> scope.ok /\ inv_ok /\ cond_ok,
        intent_strong |-> TRUE,
        reason_rank |-> IF ~inv_ok THEN 3 ELSE IF ~scope.ok THEN 2 ELSE 1,
        msg |-> IF ~inv_ok THEN missing_inventory_message(action)
                ELSE IF ~scope.ok THEN missing_scope_message(action)
                ELSE IF ~cond_ok THEN <<"You can't do that right now.">>
                ELSE <<"You can't do that.">> ]

\* the verdict on one action, from the figures its loop body has computed
Verdict(action, verb_score, noun_best, scope, held, cond_ok) ==
  LET inv_ok == held = Len(action.requires_inventory)
      intent_strong == IF action.scope_requirements = <<>> THEN TRUE
                       ELSE scope.mentioned
  IN  [ skipped |-> verb_score = 0 \/ (action.nouns # <<>> /\ noun_best = 0),
        total_score |-> verb_score + (IF action.nouns = <<>> THEN 0 ELSE noun_best)
                          + scope.score + (2 * held),
        executable |-> intent_strong /\ scope.ok /\ inv_ok /\ cond_ok,
        intent_strong |-> intent_strong,
        reason_rank |-> IF ~inv_ok THEN 3 ELSE IF ~scope.ok THEN 2 ELSE 1,
        msg |-> IF ~inv_ok THEN missing_inventory_message(action)
                ELSE IF ~scope.ok THEN missing_scope_message(action)
                ELSE IF ~cond_ok THEN <<"You can't do that right now.">>
                ELSE <<"You can't do that.">> ]

\* what the loop body of evaluate_actions_for_input computes for one action
ActionVerdict(action, tokens, locs, room_id, flags) ==
  LET Held(i) == item_in_inventory(action.requires_inventory[i], locs)
  IN  Verdict(action,
              BestPhraseScore(action.verbs, tokens),
              BestPhraseScore(action.nouns, tokens),
              ScopeLoop(action.scope_requirements, tokens, locs, room_id,
                        [ok |-> TRUE, mentioned |-> TRUE, score |-> 0]),
              Cardinality({ i \in 1..Len(action.requires_inventory) : Held(i) }),
              conditions_met(action.conditions, flags))

\* a bookkeeping in which the first of several equally scored executable
\* actions silently wins
TallyFirstWins(acc, action, v) ==
  IF v.skipped \/ ~v.executable THEN acc
  ELSE IF v.total_score > acc.best_exec_score
       THEN [acc EXCEPT !.best_exec_score = v.total_score, !.best_exec = <<action>>]
       ELSE acc

\* a bookkeeping that ignores whether the action's conditions hold
TallyAnyConditions(acc, action, v) ==
  IF v.skipped THEN acc
  ELSE IF v.intent_strong /\ v.reason_rank = 1
       THEN IF v.total_score > acc.best_exec_score
            THEN [acc EXCEPT !.best_exec_score = v.total_score, !.best_exec = <<action>>]
            ELSE IF v.total_score = acc.best_exec_score
                 THEN [acc EXCEPT !.best_exec = Append(@, action)]
                 ELSE acc
  ELSE acc

\* a bookkeeping whose blocked candidates are ranked by reason before score
TallyReasonFirst(acc, action, v) ==
  IF v.skipped THEN acc
  ELSE IF v.executable
       THEN IF v.total_score > acc.best_exec_score
            THEN [acc EXCEPT !.best_exec_score = v.total_score,
                             !.best_exec = <<action>>]
            ELSE IF v.total_score = acc.best_exec_score
                 THEN [acc EXCEPT !.best_exec = Append(@, action)]
                 ELSE acc
  ELSE IF v.intent_strong
       THEN IF \/ ~acc.best_blocked.some
               \/ (v.reason_rank * 1000) + v.total_score > acc.best_blocked.key
            THEN [acc EXCEPT !.best_blocked =
                               [some |-> TRUE,
                                key |-> (v.reason_rank * 1000) + v.total_score,
                                msg |-> v.msg]]
            ELSE acc
  ELSE acc

\* the bookkeeping of best_exec / best_exec_score / best_blocked for one action
Tally(acc, action, v) ==
  IF v.skipped THEN acc
  ELSE IF v.executable
       THEN IF v.total_score > acc.best_exec_score
            THEN [acc EXCEPT !.best_exec_score = v.total_score,
                             !.best_exec = <<action>>]
            ELSE IF v.total_score = acc.best_exec_score
                 THEN [acc EXCEPT !.best_exec = Append(@, action)]
                 ELSE acc
  ELSE IF v.intent_strong
       THEN IF \/ ~acc.best_blocked.some
               \/ (v.total_score * 10) + v.reason_rank > acc.best_blocked.key
            THEN [acc EXCEPT !.best_blocked =
                               [some |-> TRUE,
                                key |-> (v.total_score * 10) + v.reason_rank,
                                msg |-> v.msg]]
            ELSE acc
  ELSE acc

RECURSIVE ActionLoop(_, _, _, _, _, _)
ActionLoop(actions, tokens, locs, room_id, flags, acc) ==
  IF actions = <<>> THEN acc
  ELSE ActionLoop(Tail(actions), tokens, locs, room_id, flags,
                  Tally(acc, Head(actions),
                        ActionVerdict(Head(actions), tokens, locs, room_id, flags)))

NoAction == [some |-> FALSE, val |-> Action("", <<>>, <<>>, NoText, <<>>, <<>>, <<>>, <<>>)]
NoMsg == [some |-> FALSE, val |-> NoText]

\* the (exec, message, handled) triple returned after the loop
Outcome(r) ==
  IF Len(r.best_exec) = 1
  THEN [exec |-> [some |-> TRUE, val |-> r.best_exec[1]], msg |-> NoMsg,
        handled |-> TRUE]
  ELSE IF Len(r.best_exec) > 1
       THEN [exec |-> NoAction,
             msg |-> [some |-> TRUE, val |-> <<"Be more specific.">>],
             handled |-> TRUE]
  ELSE IF r.best_blocked.some
       THEN [exec |-> NoAction,
             msg |-> [some |-> TRUE, val |-> r.best_blocked.msg],
             handled |-> TRUE]
  ELSE [exec |-> NoAction, msg |-> NoMsg, handled |-> FALSE]

evaluate_actions_for_input(actions, input, locs, room_id, flags) ==
  IF tokenize(input) = <<>> THEN [exec |-> NoAction, msg |-> NoMsg, handled |-> FALSE]
  ELSE Outcome(ActionLoop(actions, tokenize(input), locs, room_id, flags,
                          [best_exec_score |-> 0, best_exec |-> <<>>,
                           best_blocked |-> [some |-> FALSE, key |-> 0, msg |-> NoText]]))

\* a tail in which room and global actions, too, consume the items they
\* require in the inventory
ApplyVerdictConsuming(w, r) ==
  IF r.exec.some
  THEN [Say(w, r.exec.val.response)
          EXCEPT !.flags = apply_effects(@, r.exec.val.effects),
                 !.locs = [i \in DOMAIN @ \ Range(r.exec.val.requires_inventory) |-> @[i]],
                 !.exec = r.exec.val.id,
                 !.handled = TRUE]
  ELSE IF r.msg.some THEN [Say(w, r.msg.val) EXCEPT !.handled = TRUE]
  ELSE [w EXCEPT !.handled = r.handled]

\* the tail shared by try_handle_action and try_handle_global_action
ApplyVerdict(w, r) ==
  IF r.exec.some
  THEN [Say(w, r.exec.val.response)
          EXCEPT !.flags = apply_effects(@, r.exec.val.effects),
                 !.exec = r.exec.val.id,
                 !.handled = TRUE]
  ELSE IF r.msg.some THEN [Say(w, r.msg.val) EXCEPT !.handled = TRUE]
  ELSE [w EXCEPT !.handled = r.handled]

try_handle_action(w, room, input) ==
  ApplyVerdict(w, evaluate_actions_for_input(room.actions, input, w.locs, w.room, w.flags))

try_handle_global_action(w, input) ==
  ApplyVerdict(w, evaluate_actions_for_input(world.global_actions, input, w.locs,
                                             w.room, w.flags))

----------------------------------------------------------------------------
(* NPCs (src/src/engine/npcs.rs)                                            *)

RECURSIVE RemoveAll(_, _)
RemoveAll(locs, ids) ==
  IF ids = <<>> THEN locs ELSE RemoveAll(RemoveLoc(locs, Head(ids)), Tail(ids))

\* the tail of try_handle_npc_action: like ApplyVerdict, and the executed
\* action's requires_inventory entries are removed from item_locations
\* a tail that leaves the required items where they are
ApplyNpcVerdictKeeping(w, r) ==
  IF r.exec.some
  THEN [Say(w, r.exec.val.response)
          EXCEPT !.flags = apply_effects(@, r.exec.val.effects),
                 !.exec = r.exec.val.id,
                 !.handled = TRUE]
  ELSE IF r.msg.some THEN [Say(w, r.msg.val) EXCEPT !.handled = TRUE]
  ELSE [w EXCEPT !.handled = r.handled]

\* the tail of try_handle_npc_action
ApplyNpcVerdict(w, r) ==
  IF r.exec.some
  THEN [Say(w, r.exec.val.response)
          EXCEPT !.flags = apply_effects(@, r.exec.val.effects),
                 !.locs = RemoveAll(@, r.exec.val.requires_inventory),
                 !.exec = r.exec.val.id,
                 !.handled = TRUE]
  ELSE IF r.msg.some THEN [Say(w, r.msg.val) EXCEPT !.handled = TRUE]
  ELSE [w EXCEPT !.handled = r.handled]

\* try_handle_npc_action once the addressed NPC has been looked up
NpcActionFound(w, input, npc_match) ==
  IF npc_match.kind = "None" THEN w
  ELSE IF npc_match.kind = "Many"
       THEN [Say(w, <<"Be more specific.">>) EXCEPT !.handled = TRUE]
  ELSE ApplyNpcVerdict([w EXCEPT !.tgt_npc = npc_match.ids[1]],
                       evaluate_actions_for_input(world.npcs[npc_match.ids[1]].actions,
                                                  input, w.locs, w.room, w.flags))

try_handle_npc_action(w, input) ==
  IF tokenize(input) = <<>> THEN w
  ELSE NpcActionFound(w, input, find_npc_by_words_scored(w, input))

DialogueKey(npc, dlg) == <<npc.id, dlg.id>>

\* the first dialogue entry whose conditions hold and that may still fire (0: none)
FirstDialogue(w, npc) ==
  LET Ready(i) ==
        /\ conditions_met(npc.dialogue[i].conditions, w.flags)
        /\ ~(npc.dialogue[i].one_shot /\ DialogueKey(npc, npc.dialogue[i]) \in w.fired_dlg)
  IN  IF \E i \in 1..Len(npc.dialogue) : Ready(i)
      THEN CHOOSE i \in 1..Len(npc.dialogue) :
             Ready(i) /\ \A j \in 1..(i - 1) : ~Ready(j)
      ELSE 0

\* handle_talk_to_npc once the dialogue entry to fire is known (0: none)
Speak(w, npc, i) ==
  IF npc.dialogue = <<>> THEN Say(w, npc.name \o <<"has nothing to say.">>)
  ELSE IF i = 0 THEN Say(w, npc.name \o <<"has nothing new to say.">>)
  ELSE [Say(w, npc.dialogue[i].response)
          EXCEPT !.flags = apply_effects(@, npc.dialogue[i].effects),
                 !.fired_dlg = IF npc.dialogue[i].one_shot
                               THEN @ \cup {DialogueKey(npc, npc.dialogue[i])}
                               ELSE @,
                 !.spoken = <<npc.id, npc.dialogue[i].id>>]

\* handle_talk_to_npc once the NPC has been looked up
TalkFound(w, npc_match) ==
  IF npc_match.kind = "None" THEN w
  ELSE IF npc_match.kind = "Many" THEN Say(w, <<"Be more specific.">>)
  ELSE Speak([w EXCEPT !.tgt_npc = npc_match.ids[1]], world.npcs[npc_match.ids[1]],
             FirstDialogue(w, world.npcs[npc_match.ids[1]]))

handle_talk_to_npc(w, target_name) ==
  IF LowerAll(target_name) = <<>> THEN Say(w, <<"Talk to whom?">>)
  ELSE TalkFound(w, find_npc_by_words_scored(w, LowerAll(target_name)))

deterministic_roll_percent(turn_index, npc_id) ==
  ModU64(stable_hash_u64(turn_index, world.npcs[npc_id].bytes), 100)

deterministic_index(turn_index, npc_id, len) ==
  IF len = 0 THEN 0
  ELSE ModU64(stable_hash_u64(turn_index + 999, world.npcs[npc_id].bytes), len)

\* an iteration that relocates the NPC whether or not the target is a room
\* of the world and whether or not roaming is enabled
RoamOneUnchecked(npcs, npc_id, turn_index) ==
  LET npc == world.npcs[npc_id]
      roam == npc.roam.val
      roll == deterministic_roll_percent(turn_index, npc_id)
      idx == deterministic_index(turn_index, npc_id, Len(roam.allowed_rooms))
      target_room == roam.allowed_rooms[idx + 1]
  IN  IF ~(npc.roam.some /\ roam.allowed_rooms # <<>> /\ roam.chance_percent > 0)
      THEN npcs
      ELSE IF roll >= roam.chance_percent THEN npcs
      ELSE [n \in (DOMAIN npcs) \cup {npc_id} |->
              IF n = npc_id THEN target_room ELSE npcs[n]]

\* one iteration of the roaming loop
RoamOne(npcs, npc_id, turn_index) ==
  LET npc == world.npcs[npc_id]
      roam == npc.roam.val
      roll == deterministic_roll_percent(turn_index, npc_id)
      idx == deterministic_index(turn_index, npc_id, Len(roam.allowed_rooms))
      target_room == roam.allowed_rooms[idx + 1]
  IN  IF ~(npc.roam.some /\ roam.enabled /\ roam.allowed_rooms # <<>>
           /\ roam.chance_percent > 0)
      THEN npcs
      ELSE IF roll >= roam.chance_percent THEN npcs
      ELSE IF target_room \in RoomIds
           THEN [n \in (DOMAIN npcs) \cup {npc_id} |->
                   IF n = npc_id THEN target_room ELSE npcs[n]]
           ELSE npcs

RECURSIVE RoamLoop(_, _, _)
RoamLoop(npcs, order, turn_index) ==
  IF order = <<>> THEN npcs
  ELSE RoamLoop(RoamOne(npcs, Head(order), turn_index), Tail(order), turn_index)

roam_npcs_after_player_move(w, turn_index) ==
  [w EXCEPT !.npcs = RoamLoop(@, w.no, turn_index),
            !.roams = @ + 1,
            !.roam_seed = turn_index]

----------------------------------------------------------------------------
(* Movement (src/src/engine/movement.rs)                                    *)

\* the words of the model that are exactly one character long
OneCharWords == {"n", "s", "l", "i", "x"}

\* s.chars().next(), lower-cased
FirstChar(word) ==
  CASE Lower(word) \in {"north", "n"} -> "n"
    [] Lower(word) \in {"south", "sing", "slip", "s"} -> "s"
    [] Lower(word) \in {"leave", "look", "lever", "l"} -> "l"
    [] Lower(word) \in {"go", "gem", "give", "greet", "guard"} -> "g"
    [] Lower(word) \in {"up", "u"} -> "u"
    [] Lower(word) \in {"down", "drop", "dance", "d"} -> "d"
    [] OTHER -> Lower(word)

stable_roll_percent(turn_index, npc_id) ==
  ModU64(stable_hash_u64(turn_index, world.npcs[npc_id].bytes), 100)

\* an exit that is there whatever its conditions say
exit_always_available(e, flags) == TRUE

exit_available(e, flags) == conditions_met(e.conditions, flags)

\* a blocking check that ignores the NPC's block_conditions
BlocksRegardless(w, npc_id, attempted_exit) ==
  LET npc == world.npcs[npc_id]
      InList(x) == \E i \in 1..Len(npc.block_exits) : Lower(npc.block_exits[i]) = Lower(x)
  IN  /\ npc.block_movement
      /\ npc_id \in DOMAIN w.npcs
      /\ w.npcs[npc_id] = w.room
      /\ conditions_met(npc.conditions, w.flags)
      /\ (npc.block_exits # <<>> =>
            \/ InList(attempted_exit.direction)
            \/ \E i \in 1..Len(attempted_exit.verbs) : InList(attempted_exit.verbs[i]))

\* does this NPC qualify to block the attempted exit?
Blocks(w, npc_id, attempted_exit) ==
  LET npc == world.npcs[npc_id]
      dir == Lower(attempted_exit.direction)
      InList(x) == \E i \in 1..Len(npc.block_exits) : Lower(npc.block_exits[i]) = Lower(x)
  IN  /\ npc.block_movement
      /\ npc_id \in DOMAIN w.npcs
      /\ w.npcs[npc_id] = w.room
      /\ conditions_met(npc.conditions, w.flags)
      /\ ~(npc.block_conditions # <<>> /\ ~conditions_met(npc.block_conditions, w.flags))
      /\ (npc.block_exits # <<>> =>
            \/ InList(dir)
            \/ \E i \in 1..Len(attempted_exit.verbs) : InList(attempted_exit.verbs[i]))

NoBlock == [blocked |-> FALSE, npc |-> "", message |-> NoText,
            attack_text |-> [some |-> FALSE, val |-> NoText],
            attack_effects |-> <<>>, rolled |-> FALSE]

\* the BlockOutcome of the first qualifying NPC
BlockOutcome(npc, hit) ==
  [ blocked |-> TRUE, npc |-> npc.id,
    message |-> IF npc.block_text.some /\ ~IsBlank(npc.block_text.val)
                THEN npc.block_text.val
                ELSE npc.name \o <<"blocks your way.">>,
    attack_text |-> IF hit
                    THEN [some |-> TRUE,
                          val |-> IF npc.attack_text.some /\ ~IsBlank(npc.attack_text.val)
                                  THEN npc.attack_text.val
                                  ELSE npc.name \o <<"strikes at you!">>]
                    ELSE [some |-> FALSE, val |-> NoText],
    attack_effects |-> IF hit THEN npc.attack_effects ELSE <<>>,
    rolled |-> npc.foe /\ npc.attack_chance_percent > 0 ]

\* an attack that lands whenever the NPC is a foe, whatever the roll
AttackHitsUnrolled(npc, attempt_seed) ==
  /\ npc.foe
  /\ npc.attack_chance_percent > 0

\* the optional attack: rolled only for a foe with a positive chance
AttackHits(npc, attempt_seed) ==
  /\ npc.foe
  /\ npc.attack_chance_percent > 0
  /\ stable_roll_percent(attempt_seed, npc.id) < npc.attack_chance_percent

FirstBlocker(blockers, attempt_seed) ==
  IF blockers = <<>> THEN NoBlock
  ELSE BlockOutcome(world.npcs[blockers[1]],
                    AttackHits(world.npcs[blockers[1]], attempt_seed))

movement_blocked_by_npc(w, attempted_exit, attempt_seed) ==
  LET Qualifies(id) == Blocks(w, id, attempted_exit)
  IN  FirstBlocker(SelectSeq(w.no, Qualifies), attempt_seed)

\* a move that trusts the exit's target to be a room of the world
do_move_unchecked(w, exit) ==
  [Say(w, <<"You go", exit.direction, ".">>) EXCEPT !.room = exit.target]

do_move(w, exit) ==
  IF exit.target \notin RoomIds
  THEN Say(w, <<"You try to go", exit.direction,
                ", but something feels wrong (room not found).">>)
  ELSE [Say(w, <<"You go", exit.direction, ".">>) EXCEPT !.room = exit.target]

\* what try_handle_movement does with the outcome of the blocking check
Blocked(w, block) ==
  LET w2 == Say(w, block.message)
      w3 == IF block.attack_text.some THEN Say(w2, block.attack_text.val) ELSE w2
  IN  IF block.attack_effects # <<>>
      THEN [w3 EXCEPT !.flags = apply_effects(@, block.attack_effects)]
      ELSE w3

BlockedOrMove(w, exit, attempt_seed, block) ==
  IF block.blocked
  THEN Blocked([w EXCEPT !.handled = TRUE, !.tgt_exit = exit.direction,
                         !.block_seed = attempt_seed, !.checks = @ + 1,
                         !.blocker = block.npc, !.rolled = block.rolled], block)
  ELSE do_move([w EXCEPT !.handled = TRUE, !.tgt_exit = exit.direction,
                         !.block_seed = attempt_seed, !.checks = @ + 1], exit)

\* a unique match: the blocking check, then the move
AttemptExit(w, exit, attempt_seed) ==
  BlockedOrMove(w, exit, attempt_seed, movement_blocked_by_npc(w, exit, attempt_seed))

Directions(exits) == [i \in 1..Len(exits) |-> exits[i].direction]

\* pass 2: abbreviations, tried when no exit matched a whole token
AbbrevPass(w, attempt_seed, abbrev_chars, abbrev_matches) ==
  IF abbrev_chars = <<>> THEN w
  ELSE IF Len(abbrev_matches) = 0 THEN w
  ELSE IF Len(abbrev_matches) = 1 THEN AttemptExit(w, abbrev_matches[1], attempt_seed)
  ELSE [Say(w, <<"That direction is ambiguous here. Did you mean:">>
                 \o Directions(abbrev_matches) \o <<"?">>)
          EXCEPT !.handled = TRUE]

\* an abbreviation pass fed by the first character of every token
AbbreviationsOfAnyToken(w, room, tokens, attempt_seed) ==
  LET AbbrevHit(exit) ==
        /\ exit_available(exit, w.flags)
        /\ \/ \E i \in 1..Len(tokens) : FirstChar(exit.direction) = FirstChar(tokens[i])
           \/ \E i \in 1..Len(tokens) : \E j \in 1..Len(exit.verbs) :
                FirstChar(exit.verbs[j]) = FirstChar(tokens[i])
  IN  AbbrevPass(w, attempt_seed, tokens, SelectSeq(room.exits, AbbrevHit))

Abbreviations(w, room, tokens, attempt_seed) ==
  LET IsOneChar(t) == t \in OneCharWords
      AbbrevHit(exit) ==
        /\ exit_available(exit, w.flags)
        /\ \/ FirstChar(exit.direction) \in Range(SelectSeq(tokens, IsOneChar))
           \/ \E j \in 1..Len(exit.verbs) :
                FirstChar(exit.verbs[j]) \in Range(SelectSeq(tokens, IsOneChar))
  IN  AbbrevPass(w, attempt_seed, SelectSeq(tokens, IsOneChar),
                 SelectSeq(room.exits, AbbrevHit))

\* a first pass that attempts the first of several matching exits
TokenPassFirstWins(w, room, tokens, attempt_seed, matches) ==
  IF Len(matches) >= 1 THEN AttemptExit(w, matches[1], attempt_seed)
  ELSE Abbreviations(w, room, tokens, attempt_seed)

\* pass 1: exits whose direction or verb is a whole token of the command
TokenPass(w, room, tokens, attempt_seed, matches) ==
  IF Len(matches) = 1 THEN AttemptExit(w, matches[1], attempt_seed)
  ELSE IF Len(matches) > 1
       THEN [Say(w, <<"That movement is ambiguous here. Did you mean:">>
                      \o Directions(matches) \o <<"?">>)
               EXCEPT !.handled = TRUE]
  ELSE Abbreviations(w, room, tokens, attempt_seed)

try_handle_movement(w, room, cmd, attempt_seed) ==
  LET Hit(exit) ==
        /\ exit_available(exit, w.flags)
        /\ \E i \in 1..Len(cmd) :
             \/ Lower(exit.direction) = Lower(cmd[i])
             \/ \E j \in 1..Len(exit.verbs) : Lower(exit.verbs[j]) = Lower(cmd[i])
  IN  IF cmd = <<>> THEN w
      ELSE TokenPass(w, room, LowerAll(cmd), attempt_seed, SelectSeq(room.exits, Hit))

----------------------------------------------------------------------------
(* Rendering (src/src/engine/render.rs)                                     *)

\* exit directions in the order of String::cmp
DirectionsSorted == <<"down", "north", "south", "up">>

RECURSIVE JoinTexts(_)
JoinTexts(texts) ==
  IF texts = <<>> THEN <<>>
  ELSE IF IsBlank(Head(texts)) THEN JoinTexts(Tail(texts))
  ELSE Head(texts) \o JoinTexts(Tail(texts))

render_room(w, room) ==
  LET ShownDesc(sd) == conditions_met(sd.conditions, w.flags)
      shown == SelectSeq(room.state_descs, ShownDesc)
      ShownItem(id) ==
        /\ HasLoc(w.locs, id)
        /\ w.locs[id] = RoomLoc(room.id)
        /\ conditions_met(world.items[id].conditions, w.flags)
      here == SelectSeq(w.io, ShownItem)
      room_desc == JoinTexts(<<room.desc>>
                     \o [i \in 1..Len(shown) |-> shown[i].text]
                     \o [i \in 1..Len(here) |-> world.items[here[i]].room_text])
      visible == { room.exits[i].direction : i \in
                     { j \in 1..Len(room.exits) : conditions_met(room.exits[j].conditions, w.flags) } }
      IsVisible(d) == d \in visible
      dirs == SelectSeq(DirectionsSorted, IsVisible)
      o1 == say(title(w.out, room.name), room_desc)
      o2 == IF visible = {} THEN set_exits(o1, <<"Exits: (none)">>)
            ELSE set_exits(o1, <<"Exits:">> \o dirs)
  IN  [w EXCEPT !.out = o2, !.renders = @ + 1]

\* conds_touch_changed: trim_start_matches('!') strips every leading '!'
conds_touch_changed(conds, changed) ==
  \E i \in 1..Len(conds) : conds[i].name # "" /\ Pos(conds[i].name) \in changed

room_depends_on_any_flag(room, locs, flags_changed) ==
  \/ \E i \in 1..Len(room.state_descs) :
       conds_touch_changed(room.state_descs[i].conditions, flags_changed)
  \/ \E i \in 1..Len(room.exits) :
       conds_touch_changed(room.exits[i].conditions, flags_changed)
  \/ \E id \in ItemIds :
       /\ HasLoc(locs, id)
       /\ locs[id] = RoomLoc(room.id)
       /\ \/ conds_touch_changed(world.items[id].conditions, flags_changed)
          \/ /\ world.items[id].kind = "Container"
             /\ \/ conds_touch_changed(world.items[id].props.conditions, flags_changed)
                \/ \E inner \in ItemIds :
                     /\ HasLoc(locs, inner)
                     /\ locs[inner] = ItemLoc(id)
                     /\ conds_touch_changed(world.items[inner].conditions, flags_changed)

----------------------------------------------------------------------------
(* Global conditions (src/src/engine/conditions.rs)                         *)

\* a pass that does not consult the set of fired one-shot conditions
RECURSIVE GlobalLoopForgetful(_, _)
GlobalLoopForgetful(w, gcs) ==
  IF gcs = <<>> THEN w
  ELSE LET gc == Head(gcs)
           fires ==
             /\ conditions_met(gc.conditions, w.flags)
             /\ ~(gc.allowed_rooms # <<>> /\ w.room \notin Range(gc.allowed_rooms))
             /\ w.room \notin Range(gc.disallowed_rooms)
           w1 == [w EXCEPT !.out = event(@, gc.response),
                           !.flags = apply_effects(@, gc.effects),
                           !.fired_gc = IF gc.one_shot THEN @ \cup {gc.id} ELSE @,
                           !.fired_now = Append(@, gc.id)]
       IN  GlobalLoopForgetful(IF fires THEN w1 ELSE w, Tail(gcs))

\* a pass that tests every condition against the flags it started from
RECURSIVE GlobalLoopSnapshot(_, _)
GlobalLoopSnapshot(w, gcs) ==
  IF gcs = <<>> THEN w
  ELSE LET gc == Head(gcs)
           fires ==
             /\ ~(gc.one_shot /\ gc.id \in w.fired_gc)
             /\ conditions_met(gc.conditions, w.flags_before)
             /\ ~(gc.allowed_rooms # <<>> /\ w.room \notin Range(gc.allowed_rooms))
             /\ w.room \notin Range(gc.disallowed_rooms)
           w1 == [w EXCEPT !.out = event(@, gc.response),
                           !.flags = apply_effects(@, gc.effects),
                           !.fired_gc = IF gc.one_shot THEN @ \cup {gc.id} ELSE @,
                           !.fired_now = Append(@, gc.id)]
       IN  GlobalLoopSnapshot(IF fires THEN w1 ELSE w, Tail(gcs))

RECURSIVE GlobalLoop(_, _)
GlobalLoop(w, gcs) ==
  IF gcs = <<>> THEN w
  ELSE LET gc == Head(gcs)
           fires ==
             /\ ~(gc.one_shot /\ gc.id \in w.fired_gc)
             /\ conditions_met(gc.conditions, w.flags)
             /\ ~(gc.allowed_rooms # <<>> /\ w.room \notin Range(gc.allowed_rooms))
             /\ w.room \notin Range(gc.disallowed_rooms)
           w1 == [w EXCEPT !.out = event(@, gc.response),
                           !.flags = apply_effects(@, gc.effects),
                           !.fired_gc = IF gc.one_shot THEN @ \cup {gc.id} ELSE @,
                           !.fired_now = Append(@, gc.id)]
       IN  GlobalLoop(IF fires THEN w1 ELSE w, Tail(gcs))

evaluate_global_conditions(w) == GlobalLoop(w, world.global_conditions)

----------------------------------------------------------------------------
(* Giving to and taking from NPCs.  lib.rs calls handle_give_to_npc and     *)
(* handle_take_from_npc, whose bodies are not part of the sources at hand:  *)
(* they are modelled from the data model (ItemLocation::Npc(holder)).       *)

handle_give_to_npc(w, item_part, npc_part) ==
  LET item_match == find_item_ignore_conditions(w, item_part, CarriedItems(w))
      npc_match == find_npc_by_words_scored(w, npc_part)
  IN  IF item_match.kind = "None" THEN Say(w, <<"You aren't carrying that.">>)
      ELSE IF item_match.kind = "Many" THEN Say(w, <<"Be more specific.">>)
      ELSE IF npc_match.kind = "None" THEN Say(w, <<"You don't see them here.">>)
      ELSE IF npc_match.kind = "Many" THEN Say(w, <<"Be more specific.">>)
      ELSE LET item == world.items[item_match.ids[1]]
               npc == world.npcs[npc_match.ids[1]]
           IN  Say([w EXCEPT !.locs = SetLoc(@, item.id, NpcLoc(npc.id)),
                             !.tgt_item = item.id, !.tgt_npc = npc.id],
                   <<"You give the">> \o item.name \o <<"to">> \o npc.name \o Period)

handle_take_from_npc(w, item_part, npc_part) ==
  LET npc_match == find_npc_by_words_scored(w, npc_part)
  IN  IF npc_match.kind = "None" THEN w
      ELSE IF npc_match.kind = "Many"
           THEN [Say(w, <<"Be more specific.">>) EXCEPT !.handled = TRUE]
      ELSE LET npc == world.npcs[npc_match.ids[1]]
               item_match == find_item(w, item_part,
                                       { id \in DOMAIN w.locs : w.locs[id] = NpcLoc(npc.id) })
               h == [w EXCEPT !.handled = TRUE, !.tgt_npc = npc.id]
           IN  IF item_match.kind = "None"
               THEN Say(h, npc.name \o <<"is not holding that.">>)
               ELSE IF item_match.kind = "Many" THEN Say(h, <<"Be more specific.">>)
               ELSE LET item == world.items[item_match.ids[1]]
                    IN  Say([h EXCEPT !.locs = SetLoc(@, item.id, InventoryLoc),
                                      !.tgt_item = item.id],
                            <<"You take the">> \o item.name \o <<"from">> \o npc.name \o Period)

----------------------------------------------------------------------------
(* GameState::step (src/src/lib.rs)                                         *)

\* index of the first (find) / last (rfind) occurrence of " word " in the rest
\* of the command: a token with at least one token on either side (0: none)
Inner(rest, word) == { i \in 2..(Len(rest) - 1) : rest[i] = word }
FindWord(rest, word) ==
  IF Inner(rest, word) = {} THEN 0
  ELSE CHOOSE i \in Inner(rest, word) : \A j \in Inner(rest, word) : i <= j
RFindWord(rest, word) ==
  IF Inner(rest, word) = {} THEN 0
  ELSE CHOOSE i \in Inner(rest, word) : \A j \in Inner(rest, word) : i >= j

Before(rest, i) == SubSeq(rest, 1, i - 1)
After(rest, i) == SubSeq(rest, i + 1, Len(rest))

Via(w, name) == [w EXCEPT !.handler = name]

\* the fallbacks of the room branch, each tried when the one before declined
\* a fallback that charges a turn for a command nobody understood
AfterGlobalActionCostsTurn(w, g) ==
  IF g.handled THEN Via(g, "global_action")
  ELSE [Via(Say(w, <<"I don't understand that command.">>), "none")
          EXCEPT !.turn = @ + 1]

AfterGlobalAction(w, g) ==
  IF g.handled THEN Via(g, "global_action")
  ELSE Via(Say(w, <<"I don't understand that command.">>), "none")

AfterRoomAction(w, input, a) ==
  IF a.handled THEN Via(a, "room_action")
  ELSE AfterGlobalAction(w, try_handle_global_action(w, input))

\* a chain that asks the global actions before the room's own
AfterNpcActionGlobalFirst(w, input, n) ==
  IF n.handled THEN Via(n, "npc_action")
  ELSE IF try_handle_global_action(w, input).handled
       THEN Via(try_handle_global_action(w, input), "global_action")
  ELSE AfterRoomAction(w, input, try_handle_action(w, world.rooms[w.room], input))

AfterNpcAction(w, input, n) ==
  IF n.handled THEN Via(n, "npc_action")
  ELSE AfterRoomAction(w, input, try_handle_action(w, world.rooms[w.room], input))

\* the player changed rooms: roaming, then the new room's description
Arrive(m) ==
  IF m.room \in RoomIds
  THEN [render_room(m, world.rooms[m.room]) EXCEPT !.rendered = TRUE]
  ELSE m

\* an arrival whose roaming pass is seeded with the turn counter as it was
\* before the move
MovedStaleSeed(m) ==
  Arrive(roam_npcs_after_player_move([m EXCEPT !.turn = @ + 1], m.turn))

Moved(m) ==
  Arrive(roam_npcs_after_player_move([m EXCEPT !.turn = @ + 1], m.turn + 1))

\* a movement branch that lets the NPCs roam after every handled move
\* attempt, whether or not the room changed
AfterMovementAlwaysRoams(w, input, m) ==
  IF m.handled
  THEN IF m.room # w.room THEN Via(Moved(m), "movement")
       ELSE [Via(roam_npcs_after_player_move(m, m.turn), "movement")
               EXCEPT !.rendered = TRUE]
  ELSE AfterNpcAction(w, input, try_handle_npc_action(w, input))

\* a movement branch that marks the room as rendered only after a real move
AfterMovementUnmarked(w, input, m) ==
  IF m.handled
  THEN IF m.room # w.room THEN Via(Moved(m), "movement")
       ELSE Via(m, "movement")
  ELSE AfterNpcAction(w, input, try_handle_npc_action(w, input))

AfterMovement(w, input, m) ==
  IF m.handled
  THEN IF m.room # w.room THEN Via(Moved(m), "movement")
       ELSE [Via(m, "movement") EXCEPT !.rendered = TRUE]
  ELSE AfterNpcAction(w, input, try_handle_npc_action(w, input))

\* the branch taken once try_handle_container_store has declined
RoomBranch(w, input, lower) ==
  IF w.room \notin RoomIds
  THEN [Via(Say(w, <<"Error: you are in an unknown room", w.room>>), "unknown_room")
          EXCEPT !.quit = TRUE]
  ELSE IF lower = <<"look">> \/ lower = <<"l">>
       THEN [Via(render_room(w, world.rooms[w.room]), "look") EXCEPT !.rendered = TRUE]
  ELSE AfterMovement(w, input,
                     try_handle_movement(w, world.rooms[w.room], lower, w.action))

AfterStore(w, input, st) ==
  IF st.handled THEN Via(st, "store") ELSE RoomBranch(w, input, LowerAll(input))

\* "take X from Y": an NPC holder is tried first, then the containers
TakeFrom(w, item_part, container_part, t) ==
  IF t.handled THEN Via(t, "take_from_npc")
  ELSE IF item_part = <<"all">>
       THEN Via(handle_take_all_from_container(w, container_part), "take_all_from")
  ELSE Via(handle_take_from_container(w, item_part, container_part), "take_from")

Take(w, rest, rest_lower, from) ==
  IF rest = <<>> THEN Via(Say(w, <<"Take what?">>), "take")
  ELSE IF rest_lower = <<"all">> THEN Via(handle_take_all_room(w), "take_all")
  ELSE IF from > 0
       THEN TakeFrom(w, Before(rest_lower, from), After(rest_lower, from),
                     handle_take_from_npc(w, Before(rest_lower, from),
                                          After(rest_lower, from)))
  ELSE Via(handle_take(w, rest_lower), "take")

Give(w, rest_lower, to) ==
  IF rest_lower = <<>> THEN Via(Say(w, <<"Give what to whom?">>), "give")
  ELSE IF to > 0
       THEN Via(handle_give_to_npc(w, Before(rest_lower, to), After(rest_lower, to)),
                "give")
  ELSE Via(Say(w, <<"Give it to whom?">>), "give")

\* the branches keyed on the first word of the input
VerbBranch(w, input, verb, rest, rest_lower) ==
  IF verb \in {"talk", "speak"}
  THEN IF rest_lower = <<>> THEN Via(Say(w, <<"Talk to whom?">>), "talk")
       ELSE Via(handle_talk_to_npc(w, rest_lower), "talk")
  ELSE IF verb = "give" THEN Give(w, rest_lower, RFindWord(rest_lower, "to"))
  ELSE IF verb \in {"take", "get"}
       THEN Take(w, rest, rest_lower, FindWord(rest_lower, "from"))
  ELSE IF verb = "drop"
       THEN IF rest = <<>> THEN Via(Say(w, <<"Drop what?">>), "drop")
            ELSE IF rest_lower = <<"all">> THEN Via(handle_drop_all(w), "drop_all")
            ELSE Via(handle_drop(w, rest_lower), "drop")
  ELSE IF verb \in {"examine", "x"}
       THEN IF rest_lower = <<>> THEN Via(Say(w, <<"Examine what?">>), "examine")
            ELSE Via(handle_examine(w, rest_lower), "examine")
  ELSE IF verb = "look" /\ Len(rest_lower) >= 2 /\ rest_lower[1] = "at"
       THEN Via(handle_examine(w, Tail(rest_lower)), "examine")
  ELSE AfterStore(w, input, try_handle_container_store(w, verb, rest_lower))

\* the command dispatch of step, up to the global-condition pass
Dispatch(w, input) ==
  IF LowerAll(input) = <<"quit">> \/ LowerAll(input) = <<"exit">>
  THEN [Via(Say(w, <<"Goodbye.">>), "quit") EXCEPT !.quit = TRUE]
  ELSE IF LowerAll(input) = <<"inventory">> \/ LowerAll(input) = <<"i">>
       THEN Via(handle_inventory(w), "inventory")
  ELSE IF input = <<>> THEN VerbBranch(w, input, "", <<>>, <<>>)
  ELSE VerbBranch(w, input, Lower(Head(input)), Tail(input), LowerAll(Tail(input)))

\* what one call of step starts from: the GameState g, an empty Output and
\* the step's local variables
Begin(g, input) ==
  [ room |-> g.room, flags |-> g.flags, fired_gc |-> g.fired_gc,
    fired_dlg |-> g.fired_dlg, locs |-> g.locs, npcs |-> g.npcs,
    turn |-> g.turn, action |-> g.action + 1, io |-> g.io, no |-> g.no,
    out |-> <<>>, quit |-> FALSE, rendered |-> FALSE, handled |-> FALSE,
    cmd |-> input, handler |-> "", exec |-> "", tgt_item |-> "", tgt_cont |-> "",
    tgt_npc |-> "", tgt_exit |-> "", spoken |-> <<>>, completed |-> {},
    renders |-> 0, roams |-> 0, roam_seed |-> 0, checks |-> 0, block_seed |-> 0,
    blocker |-> "", rolled |-> FALSE, fired_now |-> <<>>,
    flags_before |-> {}, rerendered |-> FALSE ]

\* the re-render of the current room after the global-condition pass
\* a re-render that does not ask whether the room was rendered already
RerenderEvenIfRendered(e) ==
  LET changed_flags == (e.flags \ e.flags_before) \cup (e.flags_before \ e.flags)
  IN  IF /\ changed_flags # {}
         /\ e.room \in RoomIds
         /\ room_depends_on_any_flag(world.rooms[e.room], e.locs, changed_flags)
      THEN [render_room(e, world.rooms[e.room]) EXCEPT !.rerendered = TRUE]
      ELSE e

Rerender(e) ==
  LET changed_flags == (e.flags \ e.flags_before) \cup (e.flags_before \ e.flags)
  IN  IF /\ changed_flags # {}
         /\ ~e.rendered
         /\ e.room \in RoomIds
         /\ room_depends_on_any_flag(world.rooms[e.room], e.locs, changed_flags)
      THEN [render_room(e, world.rooms[e.room]) EXCEPT !.rerendered = TRUE]
      ELSE e

\* flags_before is taken after the dispatch, before the global conditions
GlobalPass(d) == Rerender(evaluate_global_conditions([d EXCEPT !.flags_before = d.flags]))

\* a step whose diff of changed flags starts from the flags the command found
step_diff_from_start(g, input) ==
  Rerender(evaluate_global_conditions(
             [Dispatch(Begin(g, input), input) EXCEPT !.flags_before = g.flags]))

step(g, input) == GlobalPass(Dispatch(Begin(g, input), input))

----------------------------------------------------------------------------
(* The state machine                                                        *)

VARIABLES
  current_room_id,          \* GameState.current_room_id
  flags,                    \* GameState.flags
  fired_global_conditions,  \* GameState.fired_global_conditions
  fired_dialogues,          \* GameState.fired_dialogues
  item_locations,           \* GameState.item_locations
  npc_locations,            \* GameState.npc_locations
  turn_index,               \* GameState.turn_index
  action_index,             \* GameState.action_index
  item_order,               \* iteration order of world.items
  npc_order,                \* iteration order of world.npcs
  phase,                    \* "new" until initialize has run
  out,                      \* the Output of the last call
  quit,                     \* the quit flag of the last call
  last,                     \* what the last step observed (its locals)
  blocked_moves,            \* history: the <<room, direction>> moves NPCs have blocked
  completions               \* history: completions announced so far, per container

vars == << world, current_room_id, flags, fired_global_conditions, fired_dialogues,
           item_locations, npc_locations, turn_index, action_index,
           item_order, npc_order, phase, out, quit, last,
           blocked_moves, completions >>

\* iteration orders the maps of the world may take
MapOrders ==
  { [items |-> <<"key", "gem", "coin", "chest", "urn", "pebble", "bell", "box">>,
     npcs |-> <<"guard", "dog", "cat">>],
    [items |-> <<"box", "bell", "pebble", "urn", "chest", "coin", "gem", "key">>,
     npcs |-> <<"cat", "dog", "guard">>] }

\* the commands a session draws from, by the branch of step they reach
QuitCommands == { <<"quit">> }
InventoryCommands == { <<"i">> }
TalkCommands == { <<"talk", "guard">> }
GiveCommands == { <<"give", "coin", "to", "guard">> }
TakeCommands == { <<"take", "key">>, <<"TAKE", "all">>,
                  <<"take", "gem", "from", "chest">>,
                  <<"take", "pebble", "from", "urn">>,
                  <<"take", "coin", "from", "guard">>,
                  <<"take", "old">>, <<"take", "pebble", "from", "old">>,
                  <<"take", "chest">>, <<"take", "all", "from", "urn">> }
DropCommands == { <<"drop", "gem">>, <<"drop", "old">> }
ExamineCommands == { <<"x", "chest">>, <<"x", "old">> }
StoreCommands == { <<"put", "gem", "in", "chest">>, <<"put", "coin", "in", "chest">>,
                   <<"put", "gem", "in", "urn">>, <<"put", "box", "in", "box">>,
                   <<"put", "old", "in", "chest">> }
RoomCommands == { <<"look">>, <<"go", "NORTH">>, <<"s">>, <<"leave">>, <<"up">>,
                  <<"pull", "lever">>,
                  <<"Ring">>, <<"ring", "bell">>, <<"polish", "chest">>,
                  <<"bribe", "guard">>, <<"greet", "guard">>,
                  <<"dance">>, <<"sing">>, <<"xyzzy">>, <<"polish", "old">> }

GameState ==
  [ room |-> current_room_id, flags |-> flags, fired_gc |-> fired_global_conditions,
    fired_dlg |-> fired_dialogues, locs |-> item_locations, npcs |-> npc_locations,
    turn |-> turn_index, action |-> action_index, io |-> item_order, no |-> npc_order ]

NoStep == Begin([room |-> "", flags |-> {}, fired_gc |-> {}, fired_dlg |-> {},
                 locs |-> <<>>, npcs |-> <<>>, turn |-> 0, action |-> 0,
                 io |-> <<>>, no |-> <<>>], <<>>)

\* the step's observations kept in `last`
Observed(r) ==
  [ cmd |-> r.cmd, handler |-> r.handler, exec |-> r.exec, tgt_item |-> r.tgt_item,
    tgt_cont |-> r.tgt_cont, tgt_npc |-> r.tgt_npc, tgt_exit |-> r.tgt_exit,
    spoken |-> r.spoken, completed |-> r.completed, renders |-> r.renders,
    roams |-> r.roams, roam_seed |-> r.roam_seed, checks |-> r.checks,
    block_seed |-> r.block_seed, blocker |-> r.blocker, rolled |-> r.rolled,
    fired_now |-> r.fired_now, flags_before |-> r.flags_before,
    rendered |-> r.rendered, rerendered |-> r.rerendered ]

\* GameState::new
Init ==
  /\ world = World
  /\ current_room_id = ""
  /\ flags = {}
  /\ fired_global_conditions = {}
  /\ fired_dialogues = {}
  /\ item_locations = [i \in DOMAIN World.items |-> World.items[i].start_location]
  /\ npc_locations = [n \in DOMAIN World.npcs |-> World.npcs[n].start_room]
  /\ turn_index = 0
  /\ action_index = 0
  /\ \E o \in MapOrders : item_order = o.items /\ npc_order = o.npcs
  /\ phase = "new"
  /\ out = <<>>
  /\ quit = FALSE
  /\ last = Observed(NoStep)
  /\ blocked_moves = {}
  /\ completions = [i \in DOMAIN World.items |-> 0]

\* GameState::initialize
Initialize ==
  /\ phase = "new"
  /\ phase' = "running"
  /\ current_room_id' = world.start_room
  /\ out' = IF world.start_room \in RoomIds
            THEN render_room([Begin(GameState, <<>>) EXCEPT !.room = world.start_room],
                             world.rooms[world.start_room]).out
            ELSE <<>>
  /\ UNCHANGED << world, flags, fired_global_conditions, fired_dialogues,
                  item_locations, npc_locations, turn_index, action_index,
                  item_order, npc_order, quit, last, blocked_moves, completions >>

\* steps are taken on an initialized game, MaxSteps of them at most
Running == phase = "running" /\ action_index < MaxSteps

\* the GameState and the (Output, quit) pair one call of step leaves behind
Commit(r) ==
  /\ current_room_id' = r.room
  /\ flags' = r.flags
  /\ fired_global_conditions' = r.fired_gc
  /\ fired_dialogues' = r.fired_dlg
  /\ item_locations' = r.locs
  /\ npc_locations' = r.npcs
  /\ turn_index' = r.turn
  /\ action_index' = r.action
  /\ out' = r.out
  /\ quit' = r.quit
  /\ last' = Observed(r)
  /\ blocked_moves' = IF r.blocker = "" THEN blocked_moves
                      ELSE blocked_moves \cup {<<current_room_id, r.tgt_exit>>}
  /\ completions' = [i \in DOMAIN completions |->
                       IF i \in r.completed THEN completions[i] + 1 ELSE completions[i]]
  /\ UNCHANGED << world, item_order, npc_order, phase >>

\* one call of GameState::step, by the branch its input selects
StepQuit ==
  /\ Running
  /\ \E input \in QuitCommands : \E r \in {step(GameState, input)} : Commit(r)

StepInventory ==
  /\ Running
  /\ \E input \in InventoryCommands : \E r \in {step(GameState, input)} : Commit(r)

StepTalk ==
  /\ Running
  /\ \E input \in TalkCommands : \E r \in {step(GameState, input)} : Commit(r)

StepGive ==
  /\ Running
  /\ \E input \in GiveCommands : \E r \in {step(GameState, input)} : Commit(r)

StepTake ==
  /\ Running
  /\ \E input \in TakeCommands : \E r \in {step(GameState, input)} : Commit(r)

StepDrop ==
  /\ Running
  /\ \E input \in DropCommands : \E r \in {step(GameState, input)} : Commit(r)

StepExamine ==
  /\ Running
  /\ \E input \in ExamineCommands : \E r \in {step(GameState, input)} : Commit(r)

StepStore ==
  /\ Running
  /\ \E input \in StoreCommands : \E r \in {step(GameState, input)} : Commit(r)

StepRoom ==
  /\ Running
  /\ \E input \in RoomCommands : \E r \in {step(GameState, input)} : Commit(r)

Next ==
  \/ Initialize
  \/ StepQuit
  \/ StepInventory
  \/ StepTalk
  \/ StepGive
  \/ StepTake
  \/ StepDrop
  \/ StepExamine
  \/ StepStore
  \/ StepRoom

Spec == Init /\ [][Next]_vars

----------------------------------------------------------------------------
(* Sessions of one kind of play.  Spec interleaves every command of the     *)
(* lists above; the specifications below run the same step over the         *)
(* commands of one kind of play, so that longer sessions stay within reach. *)

\* one call of step with a command of the given set
Session(commands) ==
  /\ Running
  /\ \E input \in commands : \E r \in {step(GameState, input)} : Commit(r)

\* moving about: exits, blockers, roaming
MoveScenario ==
  { <<"pull", "lever">>, <<"bribe", "guard">>, <<"go", "NORTH">>, <<"up">>, <<"s">>,
    <<"leave">>, <<"look">>, <<"quit">>, <<"put", "gem", "in", "chest">> }

MoveStep == Session(MoveScenario)
MoveNext == Initialize \/ MoveStep
MoveSpec == Init /\ [][MoveNext]_vars

\* storing in containers and taking out of them
StoreScenario ==
  { <<"put", "gem", "in", "chest">>, <<"take", "gem", "from", "chest">>,
    <<"put", "coin", "in", "chest">>, <<"put", "gem", "in", "urn">>,
    <<"put", "box", "in", "box">>, <<"bribe", "guard">>, <<"pull", "lever">>,
    <<"quit">> }

StoreStep == Session(StoreScenario)
StoreNext == Initialize \/ StoreStep
StoreSpec == Init /\ [][StoreNext]_vars

\* taking things, and actions that use them up
TakeScenario ==
  { <<"take", "key">>, <<"TAKE", "all">>, <<"take", "chest">>,
    <<"take", "pebble", "from", "urn">>, <<"take", "all", "from", "urn">>,
    <<"take", "coin", "from", "guard">>, <<"give", "coin", "to", "guard">>,
    <<"bribe", "guard">>, <<"polish", "chest">>, <<"pull", "lever">> }

TakeStep == Session(TakeScenario)
TakeNext == Initialize \/ TakeStep
TakeSpec == Init /\ [][TakeNext]_vars

\* queries that several things answer to
TieScenario ==
  { <<"take", "old">>, <<"drop", "old">>, <<"x", "old">>,
    <<"put", "old", "in", "chest">>, <<"take", "pebble", "from", "old">>,
    <<"take", "key">>, <<"TAKE", "all">>, <<"drop", "gem">>, <<"pull", "lever">> }

TieStep == Session(TieScenario)
TieNext == Initialize \/ TieStep
TieSpec == Init /\ [][TieNext]_vars

\* what the end of a step does: global conditions, dialogue, re-rendering
PassScenario ==
  { <<"talk", "guard">>, <<"pull", "lever">>, <<"bribe", "guard">>, <<"go", "NORTH">>,
    <<"up">>, <<"s">>, <<"xyzzy">>, <<"quit">>, <<"i">>,
    <<"put", "gem", "in", "chest">> }

PassStep == Session(PassScenario)
PassNext == Initialize \/ PassStep
PassSpec == Init /\ [][PassNext]_vars

\* commands that more than one resolver of the chain could answer
ResolverScenario ==
  { <<"ring", "bell">>, <<"Ring">>, <<"go", "NORTH">>, <<"leave">>, <<"look">>,
    <<"dance">>, <<"sing">>, <<"xyzzy">>, <<"greet", "guard">>, <<"bribe", "guard">>,
    <<"pull", "lever">>, <<"polish", "chest">>, <<"put", "gem", "in", "chest">> }

ResolverStep == Session(ResolverScenario)
ResolverNext == Initialize \/ ResolverStep
ResolverSpec == Init /\ [][ResolverNext]_vars

----------------------------------------------------------------------------
(* An Output driven by arbitrary calls of its four methods                  *)
(* (src/src/engine/output.rs): out is Output.blocks, last the log of the    *)
(* calls made with a text that is not blank, in call order.                 *)

MaxCalls == 4

OutputTexts == { <<"a">>, <<"b">>, <<" ">>, <<>> }

ExitsTexts == { <<"Exits: north">>, <<"Exits: (none)">>, <<" ">> }

\* Output::new
OutputInit ==
  /\ world = World
  /\ current_room_id = ""
  /\ flags = {}
  /\ fired_global_conditions = {}
  /\ fired_dialogues = {}
  /\ item_locations = [i \in DOMAIN World.items |-> World.items[i].start_location]
  /\ npc_locations = [n \in DOMAIN World.npcs |-> World.npcs[n].start_room]
  /\ turn_index = 0
  /\ action_index = 0
  /\ \E o \in MapOrders : item_order = o.items /\ npc_order = o.npcs
  /\ phase = "output"
  /\ out = <<>>
  /\ quit = FALSE
  /\ last = <<>>
  /\ blocked_moves = {}
  /\ completions = [i \in DOMAIN World.items |-> 0]

OutputFrame ==
  UNCHANGED <<world, current_room_id, flags, fired_global_conditions, fired_dialogues,
              item_locations, npc_locations, turn_index, action_index, item_order,
              npc_order, phase, quit, blocked_moves, completions>>

Logged(kind, text) == IF IsBlank(text) THEN last ELSE Append(last, Block(kind, text))

CallTitle ==
  /\ Len(last) < MaxCalls
  /\ \E text \in OutputTexts : out' = title(out, text) /\ last' = Logged("Title", text)
  /\ OutputFrame

CallSay ==
  /\ Len(last) < MaxCalls
  /\ \E text \in OutputTexts : out' = say(out, text) /\ last' = Logged("Text", text)
  /\ OutputFrame

CallEvent ==
  /\ Len(last) < MaxCalls
  /\ \E text \in OutputTexts : out' = event(out, text) /\ last' = Logged("Event", text)
  /\ OutputFrame

CallSetExits ==
  /\ Len(last) < MaxCalls
  /\ \E text \in ExitsTexts : out' = set_exits(out, text) /\ last' = Logged("Exits", text)
  /\ OutputFrame

OutputNext == CallTitle \/ CallSay \/ CallEvent \/ CallSetExits

OutputSpec == OutputInit /\ [][OutputNext]_vars

----------------------------------------------------------------------------
(* conditions_met and apply_effects called on arbitrary lists and flag sets *)
(* (src/src/engine/conditions.rs, src/src/engine/helpers.rs): flags is the  *)
(* HashSet the call works on, last the call with its list, the set it      *)
(* found and its result.                                                    *)

MaxList == 3

\* the strings "a", "!a", "!!a", "b", "c" and "!c"
FlagStrings ==
  { Pos("a"), Neg("a"), [bangs |-> 2, name |-> "a"], Pos("b"), Pos("c"), Neg("c") }

FlagLists == UNION { [1..n -> FlagStrings] : n \in 0..MaxList }

NoCall == [op |-> "", list |-> <<>>, before |-> {}, met |-> TRUE]

\* a HashSet of flags, one of them the string "!a"; no call made yet
FlagInit ==
  /\ world = World
  /\ current_room_id = ""
  /\ flags \in SUBSET { Pos("a"), Pos("b"), Pos("c"), Neg("a") }
  /\ fired_global_conditions = {}
  /\ fired_dialogues = {}
  /\ item_locations = [i \in DOMAIN World.items |-> World.items[i].start_location]
  /\ npc_locations = [n \in DOMAIN World.npcs |-> World.npcs[n].start_room]
  /\ turn_index = 0
  /\ action_index = 0
  /\ \E o \in MapOrders : item_order = o.items /\ npc_order = o.npcs
  /\ phase = "flags"
  /\ out = <<>>
  /\ quit = FALSE
  /\ last = NoCall
  /\ blocked_moves = {}
  /\ completions = [i \in DOMAIN World.items |-> 0]

FlagFrame ==
  UNCHANGED << world, current_room_id, fired_global_conditions, fired_dialogues,
               item_locations, npc_locations, turn_index, action_index,
               item_order, npc_order, phase, out, quit, blocked_moves, completions >>

CallConditionsMet ==
  /\ phase = "flags"
  /\ last = NoCall
  /\ \E conditions \in FlagLists :
       last' = [op |-> "conditions_met", list |-> conditions, before |-> flags,
                met |-> conditions_met(conditions, flags)]
  /\ flags' = flags
  /\ FlagFrame

CallApplyEffects ==
  /\ phase = "flags"
  /\ last = NoCall
  /\ \E effects \in FlagLists :
       /\ flags' = apply_effects(flags, effects)
       /\ last' = [op |-> "apply_effects", list |-> effects, before |-> flags,
                   met |-> TRUE]
  /\ FlagFrame

FlagNext == CallConditionsMet \/ CallApplyEffects

FlagSpec == FlagInit /\ [][FlagNext]_vars

----------------------------------------------------------------------------
(* Properties.  The resolver properties restate the selection rule          *)
(* declaratively and compare it with what the resolver computes.            *)

Commands ==
  QuitCommands \cup InventoryCommands \cup TalkCommands \cup GiveCommands
    \cup TakeCommands \cup DropCommands \cup ExamineCommands \cup StoreCommands
    \cup RoomCommands

\* the working record a step on the current state starts from
Fresh(input) == Begin(GameState, input)

SetMax(S) == CHOOSE x \in S : \A y \in S : y <= x

PhraseMatched(phrase, tokens) ==
  phrase # <<>> /\ \A k \in 1..Len(phrase) : Lower(phrase[k]) \in Range(tokens)

\* the best full-phrase match among the phrases (0: none matches)
PhraseScore(phrases, tokens) ==
  SetMax({0} \cup { Len(phrases[i]) : i \in { j \in 1..Len(phrases) :
                                               PhraseMatched(phrases[j], tokens) } })

Mentioned(id, tokens) ==
  /\ id \in DOMAIN world.items
  /\ \E k \in 1..Len(world.items[id].name) : Lower(world.items[id].name[k]) \in Range(tokens)

Carries(id) == id \in DOMAIN item_locations /\ item_locations[id] = InventoryLoc

Here(id) == id \in DOMAIN item_locations /\ item_locations[id] = RoomLoc(current_room_id)

\* the six gates of the claim, on the current state
Executable(action, tokens) ==
  /\ PhraseScore(action.verbs, tokens) > 0
  /\ (action.nouns # <<>> => PhraseScore(action.nouns, tokens) > 0)
  /\ \A i \in 1..Len(action.scope_requirements) :
       Mentioned(action.scope_requirements[i], tokens)
  /\ \A i \in 1..Len(action.scope_requirements) : Here(action.scope_requirements[i])
  /\ \A i \in 1..Len(action.requires_inventory) : Carries(action.requires_inventory[i])
  /\ \A i \in 1..Len(action.conditions) :
       IF action.conditions[i].bangs > 0
       THEN StripBang(action.conditions[i]) \notin flags
       ELSE action.conditions[i] \in flags

\* verb + noun + 3 per mentioned scope item + 2 per carried inventory item
TotalScore(action, tokens) ==
  PhraseScore(action.verbs, tokens)
    + (IF action.nouns = <<>> THEN 0 ELSE PhraseScore(action.nouns, tokens))
    + (3 * Cardinality({ i \in 1..Len(action.scope_requirements) :
                           Mentioned(action.scope_requirements[i], tokens) }))
    + (2 * Cardinality({ i \in 1..Len(action.requires_inventory) :
                           Carries(action.requires_inventory[i]) }))

\* the executable actions of the list, each with its total score
Scored(actions, tokens) ==
  { <<i, TotalScore(actions[i], tokens)>> :
      i \in { k \in 1..Len(actions) : Executable(actions[k], tokens) } }

\* the executable actions of the list at the highest total score
Top(actions, tokens) ==
  UNION { { p[1] : p \in { q \in scored : \A o \in scored : o[2] <= q[2] } } :
          scored \in {Scored(actions, tokens)} }

Tied(actions, tokens) == Cardinality(Top(actions, tokens)) >= 2

\* the room's and the global action list, and the lists of the NPCs
PlainLists ==
  {world.global_actions}
    \cup (IF current_room_id \in RoomIds THEN {world.rooms[current_room_id].actions}
          ELSE {})

NpcLists == { world.npcs[n].actions : n \in NpcIds }

Resolved(actions, input) ==
  evaluate_actions_for_input(actions, input, item_locations, current_room_id, flags)

BeMoreSpecific == <<"Be more specific.">>

\* the resolver handled the input by reporting the ambiguity, and did nothing else
OnlyAmbiguityReported(r) ==
  /\ r.handled
  /\ r.exec = ""
  /\ r.flags = flags
  /\ r.locs = item_locations
  /\ r.out = <<Block("Text", BeMoreSpecific)>>

\* C1: whenever two or more executable actions of a list (the room's, the
\* global one or an NPC's) share the highest total score, the resolver
\* answers "Be more specific.", executes no action and changes neither the
\* flags nor the item locations.
C1_TieIsReported ==
  phase = "running" =>
    \A input \in Commands :
      /\ \A actions \in PlainLists :
           Tied(actions, LowerAll(input)) =>
             \A r \in {ApplyVerdict(Fresh(input), Resolved(actions, input))} :
               OnlyAmbiguityReported(r)
      /\ \A actions \in NpcLists :
           Tied(actions, LowerAll(input)) =>
             \A r \in {ApplyNpcVerdict(Fresh(input), Resolved(actions, input))} :
               OnlyAmbiguityReported(r)

\* a step just resolved a tie in the room's list, in the global list or in
\* the list of the NPC addressed
C1_TieResolved ==
  /\ last.exec = ""
  /\ Said(out, BeMoreSpecific)
  /\ \/ /\ last.handler = "room_action"
        /\ Tied(world.rooms[current_room_id].actions, LowerAll(last.cmd))
     \/ /\ last.handler = "global_action"
        /\ Tied(world.global_actions, LowerAll(last.cmd))
     \/ /\ last.handler = "npc_action"
        /\ last.tgt_npc \in NpcIds
        /\ Tied(world.npcs[last.tgt_npc].actions, LowerAll(last.cmd))

\* the resolver executed only an action that passes the six gates, and
\* executed the unique executable action of highest total score, if there is one
GatedAndUniqueTopExecuted(actions, tokens, r) ==
  /\ r.exec # "" =>
       \E i \in 1..Len(actions) :
         actions[i].id = r.exec /\ Executable(actions[i], tokens)
  /\ \A top \in {Top(actions, tokens)} :
       \A i \in top :
         top = {i} =>
           /\ r.handled
           /\ r.exec = actions[i].id
           /\ r.flags = apply_effects(flags, actions[i].effects)
           /\ r.out = <<Block("Text", actions[i].response)>>

\* C2: an action is executed only if its verb matched, its noun gate passed,
\* every scope item is mentioned and in the current room, every inventory
\* item is carried and its conditions hold; and when exactly one executable
\* action has the strictly highest total score, that action is executed: its
\* effects are applied to the flags and its response is emitted.
C2_UniqueTopIsExecuted ==
  phase = "running" =>
    \A input \in Commands :
      /\ \A actions \in PlainLists :
           \A r \in {ApplyVerdict(Fresh(input), Resolved(actions, input))} :
             GatedAndUniqueTopExecuted(actions, LowerAll(input), r)
      /\ \A actions \in NpcLists :
           \A r \in {ApplyNpcVerdict(Fresh(input), Resolved(actions, input))} :
             GatedAndUniqueTopExecuted(actions, LowerAll(input), r)

\* a step just executed an action that outscored another executable action
\* of its list; its response is in the output and its effects hold
C2_HigherScoreExecuted ==
  \E actions \in PlainLists \cup NpcLists :
    \E i, j \in 1..Len(actions) :
      /\ last.exec = actions[i].id
      /\ i # j
      /\ Executable(actions[j], LowerAll(last.cmd))
      /\ TotalScore(actions[j], LowerAll(last.cmd)) < TotalScore(actions[i], LowerAll(last.cmd))
      /\ actions[i].effects # <<>>
      /\ flags = apply_effects(flags, actions[i].effects)
      /\ Said(out, actions[i].response)

\* the step recorded in l executed an action of an NPC that requires item i
\* in the inventory
ConsumedBy(l, i) ==
  /\ l.handler = "npc_action"
  /\ \E n \in NpcIds :
       \E k \in 1..Len(world.npcs[n].actions) :
         /\ world.npcs[n].actions[k].id = l.exec
         /\ i \in Range(world.npcs[n].actions[k].requires_inventory)

\* C3 as stated: every item has an entry in the item-location map in every
\* reachable state.
C3_EveryItemLocated == DOMAIN item_locations = ItemIds

\* C3, amended: the item-location map has at most one entry per item of the
\* world, and an item loses its entry only in a step that executes an NPC
\* action requiring that item in the inventory; every other step leaves
\* every located item located.
C3_OnlyConsumptionUnlocates ==
  [][ /\ DOMAIN item_locations' \subseteq ItemIds
      /\ \A i \in DOMAIN item_locations \ DOMAIN item_locations' : ConsumedBy(last', i)
    ]_vars

\* an NPC action has just consumed the item it requires, and every other
\* item still has its entry
C3_ItemConsumed ==
  /\ \E i \in ItemIds :
       /\ ConsumedBy(last, i)
       /\ DOMAIN item_locations = ItemIds \ {i}

\* the current state as a GameState whose maps iterate in the order o
Ordered(o) == [GameState EXCEPT !.io = o.items, !.no = o.npcs]

\* two step results agree on the output and on the GameState
SameOutcome(r1, r2) ==
  /\ r1.out = r2.out
  /\ r1.quit = r2.quit
  /\ r1.room = r2.room
  /\ r1.flags = r2.flags
  /\ r1.fired_gc = r2.fired_gc
  /\ r1.fired_dlg = r2.fired_dlg
  /\ r1.locs = r2.locs
  /\ r1.npcs = r2.npcs
  /\ r1.turn = r2.turn
  /\ r1.action = r2.action

\* C4: replay determinism: from every state reached by a command sequence,
\* the next command produces the same output blocks and the same state in
\* every GameState constructed from the world, whatever order its hash maps
\* iterate in.
C4_ReplayDeterministic ==
  phase = "running" =>
    \A input \in Commands :
      \A o1, o2 \in MapOrders :
        \A r1 \in {step(Ordered(o1), input)} :
          \A r2 \in {step(Ordered(o2), input)} :
            SameOutcome(r1, r2)

\* the exits of the current room that are available and named by a whole
\* token of the command
ExactExits(tokens) ==
  { e \in Range(world.rooms[current_room_id].exits) :
      /\ conditions_met(e.conditions, flags)
      /\ \/ Lower(e.direction) \in Range(tokens)
         \/ \E j \in 1..Len(e.verbs) : Lower(e.verbs[j]) \in Range(tokens) }

\* the available exits whose direction or verb starts with a one-character
\* token of the command
AbbrevExits(tokens) ==
  { e \in Range(world.rooms[current_room_id].exits) :
      /\ conditions_met(e.conditions, flags)
      /\ \E t \in Range(tokens) \cap OneCharWords :
           \/ FirstChar(e.direction) = t
           \/ \E j \in 1..Len(e.verbs) : FirstChar(e.verbs[j]) = t }

\* the exit a move command matches uniquely (empty when there is none)
UniqueExit(tokens) ==
  IF ExactExits(tokens) # {}
  THEN (IF Cardinality(ExactExits(tokens)) = 1 THEN ExactExits(tokens) ELSE {})
  ELSE (IF Cardinality(AbbrevExits(tokens)) = 1 THEN AbbrevExits(tokens) ELSE {})

\* the visible NPCs of the player's room with movement blocking enabled whose
\* block conditions are satisfied and whose exit filter, if any, names exit e
Blockers(e) ==
  { n \in NpcIds :
      /\ world.npcs[n].block_movement
      /\ n \in DOMAIN npc_locations
      /\ npc_locations[n] = current_room_id
      /\ conditions_met(world.npcs[n].conditions, flags)
      /\ conditions_met(world.npcs[n].block_conditions, flags)
      /\ \/ world.npcs[n].block_exits = <<>>
         \/ \E i \in 1..Len(world.npcs[n].block_exits) :
              \/ Lower(world.npcs[n].block_exits[i]) = Lower(e.direction)
              \/ \E j \in 1..Len(e.verbs) :
                   Lower(world.npcs[n].block_exits[i]) = Lower(e.verbs[j]) }

BlockMessage(n) ==
  IF world.npcs[n].block_text.some /\ ~IsBlank(world.npcs[n].block_text.val)
  THEN world.npcs[n].block_text.val
  ELSE world.npcs[n].name \o <<"blocks your way.">>

MoveCommands == RoomCommands \ { <<"look">> }

C6_RoamOnlyOnMove ==
  [][ action_index' = action_index + 1 =>
        IF current_room_id' # current_room_id
        THEN /\ last'.roams = 1
             /\ npc_locations' = RoamLoop(npc_locations, npc_order, turn_index + 1)
        ELSE /\ last'.roams = 0
             /\ npc_locations' = npc_locations
    ]_vars

\* the room has just changed, the roaming pass has run once and has moved
\* an NPC
C6_RoamedAfterMove ==
  /\ last.handler = "movement"
  /\ current_room_id = "yard"
  /\ last.roams = 1
  /\ \E n \in NpcIds : npc_locations[n] # world.npcs[n].start_room

\* the block message of NPC n is followed by its attack
Struck(blocks, n) ==
  Said(blocks, IF world.npcs[n].attack_text.some /\ ~IsBlank(world.npcs[n].attack_text.val)
               THEN world.npcs[n].attack_text.val
               ELSE world.npcs[n].name \o <<"strikes at you!">>)

\* C7: the turn counter never decreases and grows by exactly one in just
\* the steps in which the room changed; the action counter grows by exactly
\* one in every step; a block check and its attack roll are seeded with that
\* step's already incremented action counter, and the roaming pass with the
\* already incremented turn counter.
C7_CountersAndSeeds ==
  [][ phase = "running" =>
        /\ action_index' = action_index + 1
        /\ turn_index' = (IF current_room_id' # current_room_id
                          THEN turn_index + 1 ELSE turn_index)
        /\ last'.checks > 0 => last'.block_seed = action_index'
        /\ last'.rolled =>
             (Struck(out', last'.blocker)
                <=> stable_roll_percent(action_index', last'.blocker)
                      < world.npcs[last'.blocker].attack_chance_percent)
        /\ last'.roams > 0 =>
             /\ last'.roam_seed = turn_index'
             /\ npc_locations' = RoamLoop(npc_locations, npc_order, turn_index')
    ]_vars

\* a move has just succeeded after an earlier blocked attempt: the block
\* check used the action counter and the roaming pass the turn counter, and
\* the two counters differ
C7_SeedsDiffer ==
  /\ last.roams = 1
  /\ last.checks = 1
  /\ last.roam_seed = turn_index
  /\ last.block_seed = action_index
  /\ turn_index < action_index
  /\ blocked_moves # {}

\* the step recorded in l resolved a store command to an item and a container
StoreAttempt(l) ==
  l.handler = "store" /\ l.tgt_item \in ItemIds /\ l.tgt_cont \in ItemIds

\* ... and reported that the item went into the container
StoredOk(l, blocks) ==
  /\ StoreAttempt(l)
  /\ Said(blocks, StoreText(Lower(Head(l.cmd)), world.items[l.tgt_item],
                            world.items[l.tgt_cont]))

\* the step recorded in l reported that the item was taken from the container
TakenOk(l, blocks) ==
  /\ l.handler = "take_from" /\ l.tgt_item \in ItemIds /\ l.tgt_cont \in ItemIds
  /\ Said(blocks, <<"You take the">> \o world.items[l.tgt_item].name
                    \o <<"from the">> \o world.items[l.tgt_cont].name \o <<".">>)

\* the location map locs with item i at loc and nothing else changed
OnlyMoved(locs, i, loc) == [j \in DOMAIN locs \cup {i} |-> IF j = i THEN loc ELSE locs[j]]

\* C8: a successful store of a carried item leaves the item at
\* Item(container), a successful take of an item from a container leaves it
\* in the inventory, and in either step no other item's location changes.
C8_StoreTakeRoundTrip ==
  [][ /\ StoredOk(last', out') =>
           /\ item_locations[last'.tgt_item] = InventoryLoc
           /\ item_locations' =
                OnlyMoved(item_locations, last'.tgt_item, ItemLoc(last'.tgt_cont))
      /\ TakenOk(last', out') =>
           /\ item_locations[last'.tgt_item] = ItemLoc(last'.tgt_cont)
           /\ item_locations' = OnlyMoved(item_locations, last'.tgt_item, InventoryLoc)
    ]_vars

\* the gem, stored in the chest earlier (the chest completed then), has just
\* been taken out again and is carried
C8_TakenBackAfterStore ==
  /\ TakenOk(last, out)
  /\ last.tgt_item = "gem"
  /\ last.tgt_cont = "chest"
  /\ completions["chest"] = 1
  /\ item_locations["gem"] = InventoryLoc

InitialOccupants(c) ==
  Cardinality({ i \in ItemIds : world.items[i].start_location = ItemLoc(c) })

OccupantCount(locs, c) ==
  Cardinality({ i \in DOMAIN locs : locs[i] = ItemLoc(c) })

Larger(a, b) == IF a >= b THEN a ELSE b

Full(c) ==
  /\ world.items[c].props.capacity.some
  /\ OccupantCount(item_locations, c) >= world.items[c].props.capacity.val

\* every container with a capacity holds at most the larger of its capacity
\* and its initial occupant count
WithinCapacity(locs) ==
  \A c \in ItemIds :
    (world.items[c].kind = "Container" /\ world.items[c].props.capacity.some) =>
      OccupantCount(locs, c) <= Larger(world.items[c].props.capacity.val,
                                       InitialOccupants(c))

\* the step refused the store with the message that the container is full
\* and changed no item location and no flag
RefusedAsFull ==
  /\ Said(out', <<"The">> \o world.items[last'.tgt_cont].name \o <<"is full.">>)
  /\ item_locations' = item_locations
  /\ flags' = flags

\* C9 as stated: every store into a container whose occupant count is at
\* least its capacity is refused with "The <container> is full." and changes
\* no item location and no flag; no container ever holds more than the
\* larger of its capacity and its initial occupant count.
C9_FullIsRefusedAsFull ==
  [][ /\ (StoreAttempt(last') /\ Full(last'.tgt_cont)) => RefusedAsFull
      /\ WithinCapacity(item_locations')
    ]_vars

\* C9, amended: the refusal with "The <container> is full." is that of an
\* open container (its conditions are satisfied); a closed container refuses
\* the store with its closed text, whatever its occupant count; neither
\* changes an item location or a flag, and no container ever holds more than
\* the larger of its capacity and its initial occupant count.
C9_OpenFullIsRefusedAsFull ==
  [][ /\ (StoreAttempt(last') /\ Full(last'.tgt_cont)) =>
           IF conditions_met(world.items[last'.tgt_cont].props.conditions, flags)
           THEN RefusedAsFull
           ELSE /\ Said(out', world.items[last'.tgt_cont].props.closed_text)
                /\ item_locations' = item_locations
                /\ flags' = flags
      /\ WithinCapacity(item_locations')
    ]_vars

\* a store into the open chest, which already holds as many items as its
\* capacity allows, has just been refused
C9_FullChestRefused ==
  /\ StoreAttempt(last)
  /\ last.tgt_cont = "chest"
  /\ Full("chest")
  /\ item_locations[last.tgt_item] = InventoryLoc
  /\ Said(out, <<"The">> \o world.items["chest"].name \o <<"is full.">>)

\* the containers that declare a completion flag and required contents
Completing ==
  { c \in ItemIds : /\ world.items[c].kind = "Container"
                    /\ world.items[c].props.complete_flag.some
                    /\ world.items[c].props.complete_when # <<>> }

Satisfied(locs, c) ==
  \A k \in 1..Len(world.items[c].props.complete_when) :
    /\ world.items[c].props.complete_when[k] \in DOMAIN locs
    /\ locs[world.items[c].props.complete_when[k]] = ItemLoc(c)

\* C10 as stated: over a whole session the completion text of a container
\* is emitted at most once.
C10_CompletesAtMostOnce == \A c \in Completing : completions[c] <= 1

\* C10, amended: the completion text is emitted exactly by a successful
\* store that leaves the required contents satisfied while the completion
\* flag is not set; as long as the flag stays set, a later satisfaction
\* emits no completion text and the store leaves the flag set.  (A flag
\* cleared by an effect arms the completion again.)
C10_CompletesOnlyWhileFlagUnset ==
  [][ action_index' = action_index + 1 =>
        \A c \in Completing :
          /\ Said(out', world.items[c].props.complete_text.val)
               <=> /\ StoredOk(last', out')
                   /\ last'.tgt_cont = c
                   /\ Satisfied(item_locations', c)
                   /\ world.items[c].props.complete_flag.val \notin flags
          /\ completions'[c] = completions[c]
                                 + (IF Said(out', world.items[c].props.complete_text.val)
                                    THEN 1 ELSE 0)
          /\ (StoredOk(last', out') /\ last'.tgt_cont = c
                /\ world.items[c].props.complete_flag.val \in flags) =>
               world.items[c].props.complete_flag.val \in last'.flags_before
    ]_vars

\* the chest completed once; its required item was taken out and has just
\* been stored again: no completion text, and the flag is still set
C10_SecondSatisfactionSilent ==
  /\ StoredOk(last, out)
  /\ last.tgt_cont = "chest"
  /\ Satisfied(item_locations, "chest")
  /\ completions["chest"] = 1
  /\ ~Said(out, world.items["chest"].props.complete_text.val)
  /\ world.items["chest"].props.complete_flag.val \in flags

\* C11: after any sequence of title, say, event and set_exits calls the
\* Output holds at most one Exits block, which is the last block when
\* present; no block holds a blank text; and the other blocks are the calls
\* made with a text that is not blank, in call order, so that a call made
\* after set_exits stands before the Exits block.
C11_ExitsLastNoBlank ==
  /\ Cardinality({ i \in 1..Len(out) : out[i].kind = "Exits" }) <= 1
  /\ \A i \in 1..Len(out) : out[i].kind = "Exits" => i = Len(out)
  /\ \A i \in 1..Len(out) : \E k \in 1..Len(out[i].text) : out[i].text[k] \notin {"", " "}
  /\ SelectSeq(out, IsNotExits) = SelectSeq(last, IsNotExits)

\* set_exits was called, then title and event: the Exits block is last and
\* the two later blocks stand right before it, in call order
C11_InsertedBeforeExits ==
  /\ Len(last) >= 3
  /\ last[Len(last) - 2].kind = "Exits"
  /\ last[Len(last) - 1].kind = "Title"
  /\ last[Len(last)].kind = "Event"
  /\ Len(out) >= 3
  /\ out[Len(out)] = last[Len(last) - 2]
  /\ out[Len(out) - 1] = last[Len(last)]
  /\ out[Len(out) - 2] = last[Len(last) - 1]

\* the action matched by verb and noun, with every scope item mentioned
StrongAttempt(action, tokens) ==
  /\ PhraseScore(action.verbs, tokens) > 0
  /\ (action.nouns # <<>> => PhraseScore(action.nouns, tokens) > 0)
  /\ \A i \in 1..Len(action.scope_requirements) :
       Mentioned(action.scope_requirements[i], tokens)

\* the strong-intent actions of the list that are not executable
BlockedCandidates(actions, tokens) ==
  { i \in 1..Len(actions) :
      StrongAttempt(actions[i], tokens) /\ ~Executable(actions[i], tokens) }

\* 3: an inventory item is missing; 2: a scope item is not here; 1: conditions
ReasonRank(action) ==
  IF \E i \in 1..Len(action.requires_inventory) : ~Carries(action.requires_inventory[i])
  THEN 3
  ELSE IF \E i \in 1..Len(action.scope_requirements) : ~Here(action.scope_requirements[i])
       THEN 2
       ELSE 1

FeedbackOf(action) ==
  IF ReasonRank(action) = 3 THEN missing_inventory_message(action)
  ELSE IF ReasonRank(action) = 2 THEN missing_scope_message(action)
  ELSE <<"You can't do that right now.">>

\* the blocked candidates that are best by reason, then by score
BestByReason(actions, tokens) ==
  UNION { { i \in B : \A j \in B :
              \/ ReasonRank(actions[j]) < ReasonRank(actions[i])
              \/ /\ ReasonRank(actions[j]) = ReasonRank(actions[i])
                 /\ TotalScore(actions[j], tokens) <= TotalScore(actions[i], tokens) } :
          B \in {BlockedCandidates(actions, tokens)} }

\* the blocked candidates that are best by score, then by reason
BestByScore(actions, tokens) ==
  UNION { { i \in B : \A j \in B :
              \/ TotalScore(actions[j], tokens) < TotalScore(actions[i], tokens)
              \/ /\ TotalScore(actions[j], tokens) = TotalScore(actions[i], tokens)
                 /\ ReasonRank(actions[j]) <= ReasonRank(actions[i]) } :
          B \in {BlockedCandidates(actions, tokens)} }

\* the resolver handled the input by reporting the feedback of one of the
\* candidates, and did nothing else
OnlyFeedbackOf(actions, candidates, r) ==
  /\ r.handled
  /\ r.exec = ""
  /\ r.flags = flags
  /\ r.locs = item_locations
  /\ \E i \in candidates : r.out = <<Block("Text", FeedbackOf(actions[i]))>>

NoneExecutable(actions, tokens) ==
  \A i \in 1..Len(actions) : ~Executable(actions[i], tokens)

\* C12 as stated: when no action of a list is executable, the one message
\* reported is that of a blocked strong-intent candidate which is best by
\* reason (missing inventory over missing scope over conditions) and, among
\* the candidates of that reason, by total score.
C12_ReasonBeforeScore ==
  phase = "running" =>
    \A input \in Commands :
      /\ \A actions \in PlainLists :
           NoneExecutable(actions, LowerAll(input)) =>
             \A best \in {BestByReason(actions, LowerAll(input))} :
               best # {} =>
                 OnlyFeedbackOf(actions, best,
                                ApplyVerdict(Fresh(input), Resolved(actions, input)))
      /\ \A actions \in NpcLists :
           NoneExecutable(actions, LowerAll(input)) =>
             \A best \in {BestByReason(actions, LowerAll(input))} :
               best # {} =>
                 OnlyFeedbackOf(actions, best,
                                ApplyNpcVerdict(Fresh(input), Resolved(actions, input)))

\* C12 amended: when no action of a list is executable, the one message
\* reported is that of a blocked strong-intent candidate which is best by
\* total score and, among the candidates of that score, by reason.
C12_ScoreBeforeReason ==
  phase = "running" =>
    \A input \in Commands :
      /\ \A actions \in PlainLists :
           NoneExecutable(actions, LowerAll(input)) =>
             \A best \in {BestByScore(actions, LowerAll(input))} :
               best # {} =>
                 OnlyFeedbackOf(actions, best,
                                ApplyVerdict(Fresh(input), Resolved(actions, input)))
      /\ \A actions \in NpcLists :
           NoneExecutable(actions, LowerAll(input)) =>
             \A best \in {BestByScore(actions, LowerAll(input))} :
               best # {} =>
                 OnlyFeedbackOf(actions, best,
                                ApplyNpcVerdict(Fresh(input), Resolved(actions, input)))

\* a step in the yard just reported the feedback of the higher-scored
\* candidate although a candidate of a stronger reason was blocked, too
C12_HigherScoreReported ==
  /\ last.handler = "room_action"
  /\ last.exec = ""
  /\ NoneExecutable(world.rooms[current_room_id].actions, LowerAll(last.cmd))
  /\ \E i, j \in BlockedCandidates(world.rooms[current_room_id].actions, LowerAll(last.cmd)) :
       \E a \in {world.rooms[current_room_id].actions[i]} :
         \E b \in {world.rooms[current_room_id].actions[j]} :
           /\ ReasonRank(a) < ReasonRank(b)
           /\ TotalScore(b, LowerAll(last.cmd)) < TotalScore(a, LowerAll(last.cmd))
           /\ FeedbackOf(a) # FeedbackOf(b)
           /\ Said(out, FeedbackOf(a))

\* a scope-required item of the action fails its own visibility conditions
HiddenScope(action) ==
  \E i \in 1..Len(action.scope_requirements) :
    /\ action.scope_requirements[i] \in ItemIds
    /\ ~conditions_met(world.items[action.scope_requirements[i]].conditions, flags)

\* the verb and noun gates of the action pass
VerbAndNounMatch(action, tokens) ==
  /\ PhraseScore(action.verbs, tokens) > 0
  /\ (action.nouns # <<>> => PhraseScore(action.nouns, tokens) > 0)

\* the resolver neither executed an action with a hidden scope item nor,
\* where only such actions match the input, handled the input at all
HiddenScopeSkipped(actions, tokens, r) ==
  /\ \A i \in 1..Len(actions) : HiddenScope(actions[i]) => r.exec # actions[i].id
  /\ (\A i \in 1..Len(actions) :
        VerbAndNounMatch(actions[i], tokens) => HiddenScope(actions[i]))
       => ~r.handled /\ r.out = <<>>

\* C13: an action one of whose scope-required items fails its visibility
\* conditions under the current flags is skipped: it is not executed and
\* yields no blocked feedback, so that a list in which only such actions
\* match the input leaves the input unhandled.
C13_HiddenScopeIsSkipped ==
  phase = "running" =>
    \A input \in Commands :
      /\ \A actions \in PlainLists :
           HiddenScopeSkipped(actions, LowerAll(input),
                              ApplyVerdict(Fresh(input), Resolved(actions, input)))
      /\ \A actions \in NpcLists :
           HiddenScopeSkipped(actions, LowerAll(input),
                              ApplyNpcVerdict(Fresh(input), Resolved(actions, input)))

\* the action declares a scope requirement that the input does not mention
Unmentioned(action, tokens) ==
  \E i \in 1..Len(action.scope_requirements) :
    ~Mentioned(action.scope_requirements[i], tokens)

\* the list without the actions that have an unmentioned scope requirement
MentionedOnly(actions, tokens) ==
  LET Keep(action) == ~Unmentioned(action, tokens) IN SelectSeq(actions, Keep)

\* what the resolver's caller sees of a result
Seen(r) == [exec |-> r.exec, handled |-> r.handled, out |-> r.out,
            flags |-> r.flags, locs |-> r.locs]

\* actions with an unmentioned scope requirement play no part in the result,
\* and a matching action without scope requirements makes the list handle
\* the input
WeakIntentIgnored(actions, input, result, other) ==
  (\E i \in 1..Len(actions) : VerbAndNounMatch(actions[i], LowerAll(input))) =>
    \A r \in {Seen(result)} :
      /\ \A i \in 1..Len(actions) :
           Unmentioned(actions[i], LowerAll(input)) => r.exec # actions[i].id
      /\ r = Seen(other)
      /\ (\E i \in 1..Len(actions) :
            /\ actions[i].scope_requirements = <<>>
            /\ VerbAndNounMatch(actions[i], LowerAll(input)))
           => r.handled /\ (r.exec # "" \/ r.out # <<>>)

\* C14: an action with a scope requirement that the input does not mention
\* is never executed and never yields blocked feedback -- the resolver
\* answers as if the action were not in the list -- and an action without
\* scope requirements whose verb and noun match is always either executed,
\* part of a reported tie or a source of blocked feedback.
C14_UnmentionedScopeIgnored ==
  phase = "running" =>
    \A input \in Commands :
      /\ \A actions \in PlainLists :
           WeakIntentIgnored(actions, input,
             ApplyVerdict(Fresh(input), Resolved(actions, input)),
             ApplyVerdict(Fresh(input),
                          Resolved(MentionedOnly(actions, LowerAll(input)), input)))
      /\ \A actions \in NpcLists :
           WeakIntentIgnored(actions, input,
             ApplyNpcVerdict(Fresh(input), Resolved(actions, input)),
             ApplyNpcVerdict(Fresh(input),
                             Resolved(MentionedOnly(actions, LowerAll(input)), input)))

\* an action whose verb matches, whose scope items are all in the room,
\* whose inventory items are carried and whose conditions hold, but one of
\* whose scope items the input does not mention
OnlyUnmentioned(action, tokens) ==
  /\ VerbAndNounMatch(action, tokens)
  /\ Unmentioned(action, tokens)
  /\ \A i \in 1..Len(action.scope_requirements) : Here(action.scope_requirements[i])
  /\ \A i \in 1..Len(action.requires_inventory) : Carries(action.requires_inventory[i])
  /\ conditions_met(action.conditions, flags)

\* a step just executed a room action over an equally scored action of the
\* list that lacks nothing but the mention of one of its scope items
C14_UnmentionedPassedOver ==
  /\ last.handler = "room_action"
  /\ last.exec # ""
  /\ \E i, j \in 1..Len(world.rooms[current_room_id].actions) :
       \E a \in {world.rooms[current_room_id].actions[i]} :
         \E b \in {world.rooms[current_room_id].actions[j]} :
           /\ a.id = last.exec
           /\ a.scope_requirements # <<>>
           /\ Said(out, a.response)
           /\ OnlyUnmentioned(b, LowerAll(last.cmd))

\* the action list the step recorded in l resolved its input in
ListOf(l) ==
  IF l.handler = "room_action" /\ current_room_id \in RoomIds
  THEN world.rooms[current_room_id].actions
  ELSE IF l.handler = "global_action" THEN world.global_actions
  ELSE IF l.handler = "npc_action" /\ l.tgt_npc \in NpcIds
       THEN world.npcs[l.tgt_npc].actions
  ELSE <<>>

\* the items required in the inventory by the action the step executed
RequiredBy(l) ==
  UNION { Range(ListOf(l)[k].requires_inventory) :
            k \in { j \in 1..Len(ListOf(l)) : ListOf(l)[j].id = l.exec } }

ItemCommands == TakeCommands \cup DropCommands \cup ExamineCommands \cup StoreCommands

\* no take, drop, examine or store command matches an item without a location
UnlocatedUnmatched ==
  phase = "running" =>
    \A input \in ItemCommands :
      \A r \in {step(GameState, input)} :
        /\ r.tgt_item \in ItemIds => r.tgt_item \in DOMAIN item_locations
        /\ r.tgt_cont \in ItemIds => r.tgt_cont \in DOMAIN item_locations

\* C15 as stated: after a step that executed an action with inventory
\* requirements, be it a room's, a global or an NPC's action, none of the
\* required items has a location entry.
C15_EveryExecutionConsumes ==
  last.exec # "" => RequiredBy(last) \cap DOMAIN item_locations = {}

\* C15 amended: a step that executed an NPC's action leaves none of the
\* items the action requires with a location entry, while a room's or a
\* global action leaves them carried; an item without an entry is matched by
\* no take, drop, examine or store command and never regains an entry.
C15_NpcExecutionConsumes ==
  /\ [](last.handler = "npc_action" /\ last.exec # ""
          => RequiredBy(last) \cap DOMAIN item_locations = {})
  /\ [](last.handler \in {"room_action", "global_action"} /\ last.exec # ""
          => \A i \in RequiredBy(last) : Carries(i))
  /\ []UnlocatedUnmatched
  /\ [][DOMAIN item_locations' \subseteq DOMAIN item_locations]_vars

\* the coin was consumed by an NPC's action and a later step answered a
\* command naming it without matching it
C15_ConsumedCoinUnmatched ==
  /\ "coin" \notin DOMAIN item_locations
  /\ "coin" \in Range(last.cmd)
  /\ last.handler \in {"store", "take_from_npc"}
  /\ last.tgt_item = ""

\* item i lies inside item j, directly or through at most n containers
RECURSIVE Within(_, _, _)
Within(i, j, n) ==
  /\ n > 0
  /\ i \in DOMAIN item_locations
  /\ item_locations[i].k = "Item"
  /\ \/ item_locations[i].id = j
     \/ Within(item_locations[i].id, j, n - 1)

\* C16: container nesting is acyclic in every reachable state: no item lies,
\* directly or transitively, inside itself.
C16_NestingAcyclic ==
  \A i \in ItemIds : ~Within(i, i, Cardinality(ItemIds))

\* the available exits of the room whose direction or verb starts with the
\* first character of some token, whatever the token's length
FirstCharExits(tokens) ==
  { e \in Range(world.rooms[current_room_id].exits) :
      /\ conditions_met(e.conditions, flags)
      /\ \E t \in Range(tokens) :
           \/ FirstChar(e.direction) = FirstChar(t)
           \/ \E j \in 1..Len(e.verbs) : FirstChar(e.verbs[j]) = FirstChar(t) }

\* C17: for a command without a one-character token that matches no
\* available exit by a whole token, the movement resolver reports "not
\* handled" and changes nothing, whatever the first characters of its tokens.
C17_AbbreviationNeedsOneCharToken ==
  (phase = "running" /\ current_room_id \in RoomIds) =>
    \A input \in Commands :
      (Range(LowerAll(input)) \cap OneCharWords = {} /\ ExactExits(LowerAll(input)) = {}) =>
        \A w \in {Fresh(input)} :
          try_handle_movement(w, world.rooms[current_room_id], input, w.action) = w

\* a step just handled, without any movement, a command whose tokens are
\* longer than one character and one of which starts like an available exit
C17_FirstCharNotAbbreviated ==
  /\ current_room_id \in RoomIds
  /\ last.cmd # <<>>
  /\ Range(LowerAll(last.cmd)) \cap OneCharWords = {}
  /\ ExactExits(LowerAll(last.cmd)) = {}
  /\ FirstCharExits(LowerAll(last.cmd)) # {}
  /\ last.handler \in {"room_action", "global_action", "npc_action", "none"}
  /\ last.tgt_exit = ""
  /\ last.checks = 0

\* more than one available exit matches by a whole token or, none doing
\* so, by the abbreviation of a one-character token
AmbiguousMove(tokens) ==
  IF ExactExits(tokens) # {}
  THEN Cardinality(ExactExits(tokens)) > 1
  ELSE Cardinality(AbbrevExits(tokens)) > 1

AmbiguityReported(blocks) ==
  \E i \in 1..Len(blocks) :
    /\ blocks[i].kind = "Text"
    /\ blocks[i].text[1] \in {"That movement is ambiguous here. Did you mean:",
                              "That direction is ambiguous here. Did you mean:"}

\* C18: a move command that matches more than one available exit, in the
\* whole-token pass or (that pass being empty) in the abbreviation pass, is
\* handled by reporting the ambiguity: the current room, the turn counter,
\* the flags, the item and the NPC locations are unchanged, no blocking check
\* is made and no NPC roams.
C18_AmbiguousMoveChangesNothing ==
  [][ ( /\ action_index' = action_index + 1
        /\ current_room_id \in RoomIds
        /\ last'.cmd \in MoveCommands
        /\ AmbiguousMove(LowerAll(last'.cmd)) ) =>
        /\ last'.handler = "movement"
        /\ AmbiguityReported(out')
        /\ current_room_id' = current_room_id
        /\ turn_index' = turn_index
        /\ last'.flags_before = flags
        /\ flags' = flags
        /\ item_locations' = item_locations
        /\ npc_locations' = npc_locations
        /\ last'.checks = 0
        /\ last'.blocker = ""
        /\ last'.roams = 0
    ]_vars

\* a step just reported that a one-character token abbreviates two of the
\* room's exits
C18_AbbreviationAmbiguous ==
  /\ last.handler = "movement"
  /\ Len(last.cmd) = 1
  /\ last.cmd[1] \in OneCharWords
  /\ ExactExits(LowerAll(last.cmd)) = {}
  /\ Cardinality(AbbrevExits(LowerAll(last.cmd))) = 2
  /\ out = <<Block("Text", <<"That direction is ambiguous here. Did you mean:",
                             "north", "up", "?">>)>>
  /\ last.checks = 0
  /\ last.roams = 0

RoomNotFound(e) ==
  <<"You try to go", e.direction, ", but something feels wrong (room not found).">>

\* C19: a uniquely matched move that no NPC blocks, through an exit whose
\* target is not a room of the world, reports the missing room and changes
\* nothing: the current room, the turn counter, the flags, the item and the
\* NPC locations are unchanged and no NPC roams.
C19_MissingTargetChangesNothing ==
  [][ ( /\ action_index' = action_index + 1
        /\ current_room_id \in RoomIds
        /\ last'.cmd \in MoveCommands ) =>
        \A e \in UniqueExit(LowerAll(last'.cmd)) :
          (Blockers(e) = {} /\ e.target \notin RoomIds) =>
            /\ last'.handler = "movement"
            /\ last'.tgt_exit = e.direction
            /\ out' = <<Block("Text", RoomNotFound(e))>>
            /\ current_room_id' = current_room_id
            /\ turn_index' = turn_index
            /\ last'.flags_before = flags
            /\ flags' = flags
            /\ item_locations' = item_locations
            /\ npc_locations' = npc_locations
            /\ last'.roams = 0
    ]_vars

\* a step just attempted, unblocked, the exit of the hall that leads to a
\* room missing from the world
C19_MissingRoomReported ==
  /\ current_room_id = "hall"
  /\ last.handler = "movement"
  /\ last.blocker = ""
  /\ last.checks = 1
  /\ \E e \in Range(world.rooms["hall"].exits) :
       /\ e.target \notin RoomIds
       /\ last.tgt_exit = e.direction
       /\ Said(out, RoomNotFound(e))

\* the NPCs in the order in which the world declares them
DeclaredNpcs == <<"guard", "dog", "cat">>

\* the qualifying blocker declared first
FirstDeclared(blockers) ==
  DeclaredNpcs[CHOOSE i \in 1..Len(DeclaredNpcs) :
                 /\ DeclaredNpcs[i] \in blockers
                 /\ \A j \in 1..(i - 1) : DeclaredNpcs[j] \notin blockers]

BlockMessages(blocks, blockers) ==
  { i \in 1..Len(blocks) : \E n \in blockers : blocks[i] = Block("Text", BlockMessage(n)) }

\* C20: when several NPCs of the current room qualify to block the attempted
\* exit, the step emits exactly one block message, that of the qualifying NPC
\* declared first, and rolls the attack of that NPC only.
C20_FirstDeclaredBlocks ==
  [][ ( /\ action_index' = action_index + 1
        /\ current_room_id \in RoomIds
        /\ last'.cmd \in MoveCommands ) =>
        \A e \in UniqueExit(LowerAll(last'.cmd)) :
          \A blockers \in {Blockers(e)} :
            Cardinality(blockers) >= 2 =>
              \A first \in {FirstDeclared(blockers)} :
                /\ last'.blocker = first
                /\ Cardinality(BlockMessages(out', blockers)) = 1
                /\ Said(out', BlockMessage(first))
                /\ last'.rolled = (world.npcs[first].foe
                                     /\ world.npcs[first].attack_chance_percent > 0)
                /\ last'.flags_before
                     \in {flags, apply_effects(flags, world.npcs[first].attack_effects)}
    ]_vars

MaxSeed == 8

\* roaming is enabled for the NPC, with rooms to go to and a positive chance
Roams(n) ==
  /\ world.npcs[n].roam.some
  /\ world.npcs[n].roam.val.enabled
  /\ world.npcs[n].roam.val.allowed_rooms # <<>>
  /\ world.npcs[n].roam.val.chance_percent > 0

\* the NPC is in its start room or in a room of the world that its roam
\* list allows
AtHomeOrAllowed(n, room) ==
  \/ room = world.npcs[n].start_room
  \/ /\ world.npcs[n].roam.some
     /\ room \in Range(world.npcs[n].roam.val.allowed_rooms) \cap RoomIds

\* the room the roaming pass seeded with t selects for the NPC
Selected(n, t) ==
  world.npcs[n].roam.val.allowed_rooms[
    deterministic_index(t, n, Len(world.npcs[n].roam.val.allowed_rooms)) + 1]

\* a roaming pass from the current NPC locations with any seed: no output,
\* every NPC at home or in an allowed room, and an NPC that does not roam or
\* whose selected room is missing stays where it is.  The pass reads nothing
\* but the NPC locations, which change in moves only: it is evaluated after
\* initialize and after every move.
RoamPassSafe ==
  (phase = "running" /\ (action_index = 0 \/ last.roams > 0)) =>
    \A t \in 0..MaxSeed :
      \A r \in {roam_npcs_after_player_move(Fresh(<<>>), t)} :
        /\ r.out = <<>>
        /\ DOMAIN r.npcs = DOMAIN npc_locations
        /\ \A n \in NpcIds :
             /\ AtHomeOrAllowed(n, r.npcs[n])
             /\ ~Roams(n) => r.npcs[n] = npc_locations[n]
             /\ (Roams(n) /\ Selected(n, t) \notin RoomIds) => r.npcs[n] = npc_locations[n]

\* C21: in every reachable state each NPC is in its start room or in a room
\* of its roam list that exists in the world; an NPC whose roaming is not
\* enabled, has no rooms or has no chance never changes location; and a
\* roaming pass whose selected room is missing from the world leaves the NPC
\* where it was and emits nothing.
C21_NpcsStayInKnownRooms ==
  /\ [](\A n \in NpcIds : n \in DOMAIN npc_locations /\ AtHomeOrAllowed(n, npc_locations[n]))
  /\ []RoamPassSafe
  /\ [][\A n \in NpcIds : ~Roams(n) => npc_locations'[n] = npc_locations[n]]_vars

\* a move just seeded a roaming pass in which an NPC passed its roll, was
\* sent to a room missing from the world and stayed, while another NPC left
\* its start room
C21_MissingRoamTargetIgnored ==
  /\ last.roams = 1
  /\ \E n \in NpcIds :
       /\ Roams(n)
       /\ deterministic_roll_percent(last.roam_seed, n)
            < world.npcs[n].roam.val.chance_percent
       /\ Selected(n, last.roam_seed) \notin RoomIds
       /\ npc_locations[n] = world.npcs[n].start_room
  /\ \E n \in NpcIds : npc_locations[n] # world.npcs[n].start_room

ContainerCommands ==
  StoreCommands \cup TakeCommands \cup { <<"take", "all", "from", "urn">> }

\* the container has interaction conditions that the current flags do not meet
Closed(c) ==
  /\ world.items[c].kind = "Container"
  /\ world.items[c].props.conditions # <<>>
  /\ ~conditions_met(world.items[c].props.conditions, flags)

\* C22: a store, a take from a container or a take of everything from a
\* container whose uniquely resolved container has unmet interaction
\* conditions emits the container's closed text and nothing else, and changes
\* no item location and no flag.
C22_ClosedContainerRefuses ==
  phase = "running" =>
    \A input \in ContainerCommands :
      \A r \in {step(GameState, input)} :
        ( /\ r.handler \in {"store", "take_from", "take_all_from"}
          /\ r.tgt_cont \in ItemIds
          /\ Closed(r.tgt_cont) ) =>
          /\ r.out = <<Block("Text", world.items[r.tgt_cont].props.closed_text)>>
          /\ r.locs = item_locations
          /\ r.flags_before = flags
          /\ r.flags = flags
          /\ r.completed = {}

\* a step just refused to take the pebble from the sealed urn, and taking
\* everything from it or storing the gem in it would be refused alike
C22_SealedUrnRefused ==
  /\ last.handler = "take_from"
  /\ last.tgt_cont = "urn"
  /\ Closed("urn")
  /\ out = <<Block("Text", <<"The urn is sealed.">>)>>
  /\ item_locations["pebble"] = ItemLoc("urn")
  /\ \A r \in {step(GameState, <<"take", "all", "from", "urn">>)} :
       r.handler = "take_all_from" /\ r.tgt_cont = "urn" /\ r.locs = item_locations
  /\ \A r \in {step(GameState, <<"put", "gem", "in", "urn">>)} :
       r.handler = "store" /\ r.tgt_cont = "urn" /\ r.locs = item_locations

\* the items lying in the current room, and the items inside its containers
ItemsOfRoom ==
  { i \in DOMAIN item_locations : item_locations[i] = RoomLoc(current_room_id) }

ItemsInsideRoomContainers ==
  { i \in DOMAIN item_locations :
      \E c \in ItemsOfRoom :
        world.items[c].kind = "Container" /\ item_locations[i] = ItemLoc(c) }

\* the conditions reachable from the current room
RoomConditions ==
  UNION ( { Range(world.rooms[current_room_id].state_descs[k].conditions) :
              k \in 1..Len(world.rooms[current_room_id].state_descs) }
          \cup { Range(world.rooms[current_room_id].exits[k].conditions) :
                   k \in 1..Len(world.rooms[current_room_id].exits) }
          \cup { Range(world.items[i].conditions) :
                   i \in ItemsOfRoom \cup ItemsInsideRoomContainers }
          \cup { Range(world.items[c].props.conditions) :
                   c \in { i \in ItemsOfRoom : world.items[i].kind = "Container" } } )

\* the flags that differ between the dispatch and the end of the last step
ChangedByPass == (flags \ last.flags_before) \cup (last.flags_before \ flags)

\* C23: a step renders the room at most once, and it renders it after the
\* global-condition pass only if it had not rendered it before and the pass
\* changed a flag that a condition reachable from the current room names,
\* with or without negation.
C23_RenderedAtMostOnce ==
  /\ last.renders <= 1
  /\ last.rerendered =>
       /\ last.renders = 1
       /\ ~last.rendered
       /\ current_room_id \in RoomIds
       /\ \E f \in ChangedByPass : \E c \in RoomConditions : c.name = f.name

\* a store step just completed the chest, a global condition took the
\* completion flag back and the hall, whose description names that flag, was
\* rendered after the event
C23_RerenderedAfterEvent ==
  /\ last.handler = "store"
  /\ last.rerendered
  /\ last.fired_now # <<>>
  /\ ChangedByPass # {}
  /\ \E i, j \in 1..Len(out) :
       i < j /\ out[i].kind = "Event" /\ out[j].kind = "Title"
  /\ out[Len(out)].kind = "Exits"

\* how many words of the query are among the words of the entity
Overlap(words, query) ==
  Cardinality({ i \in 1..Len(query) : \E j \in 1..Len(words) : words[j] = query[i] })

\* the candidates with a positive overlap that no other candidate exceeds
TopOf(cands, words, query) ==
  { c \in cands :
      /\ Overlap(words[c], query) > 0
      /\ \A d \in cands : Overlap(words[d], query) <= Overlap(words[c], query) }

ItemWords == [i \in ItemIds |-> AllWords(world.items[i])]
NpcWords == [n \in NpcIds |-> AllWords(world.npcs[n])]

VisibleItems ==
  { i \in DOMAIN item_locations : conditions_met(world.items[i].conditions, flags) }

CarriedNow == { i \in DOMAIN item_locations : item_locations[i] = InventoryLoc }

ContainersAtHand ==
  { i \in (ItemsOfRoom \cup CarriedNow) \cap VisibleItems :
      world.items[i].kind = "Container" }

NpcsHere ==
  { n \in DOMAIN npc_locations :
      /\ npc_locations[n] = current_room_id
      /\ conditions_met(world.npcs[n].conditions, flags) }

\* the locator's answer is None, One or Many as the top candidates are none,
\* one or several, and a Many lists all of them in the order of their names
Answers(result, top, byName) ==
  LET IsTop(id) == id \in top
  IN  /\ result.kind = "None" <=> top = {}
      /\ result.kind = "One" <=> Cardinality(top) = 1
      /\ result.kind = "Many" <=> Cardinality(top) >= 2
      /\ Range(result.ids) = top
      /\ result.kind = "Many" => result.ids = SelectSeq(byName, IsTop)

LocatorQueries ==
  { <<"old">>, <<"old", "chest">>, <<"old", "old">>, <<"brass", "old", "coin">>,
    <<"gem">>, <<"big">>, <<"big", "man">>, <<"dog", "guard">>, <<"nothing">> }

LocatorAnswers ==
  \A query \in LocatorQueries : \A w \in {Fresh(query)} :
    /\ Answers(find_item(w, query, InRoomItems(w)),
               TopOf(ItemsOfRoom \cap VisibleItems, ItemWords, query), ItemsByName)
    /\ Answers(find_item_ignore_conditions(w, query, CarriedItems(w)),
               TopOf(CarriedNow, ItemWords, query), ItemsByName)
    /\ Answers(FindContainer(w, query),
               TopOf(ContainersAtHand, ItemWords, query), ItemsByName)
    /\ Answers(find_npc_by_words_scored(w, query),
               TopOf(NpcsHere, NpcWords, query), NpcsByName)

TiedIn(cands, query) == Cardinality(TopOf(cands, ItemWords, query)) >= 2

\* the commands whose lookup of "old" may meet a tie, and the states in
\* which it does
TieCommands ==
  { <<"take", "old">>, <<"drop", "old">>, <<"x", "old">>,
    <<"put", "old", "in", "chest">>, <<"take", "pebble", "from", "old">> }

TiedLookup(cmd) ==
  CASE cmd = <<"take", "old">> -> TiedIn(ItemsOfRoom \cap VisibleItems, <<"old">>)
    [] cmd = <<"drop", "old">> -> TiedIn(CarriedNow, <<"old">>)
    [] cmd = <<"x", "old">> ->
         \/ TiedIn(CarriedNow, <<"old">>)
         \/ /\ TopOf(CarriedNow, ItemWords, <<"old">>) = {}
            /\ TiedIn(ItemsOfRoom \cap VisibleItems, <<"old">>)
    [] cmd = <<"put", "old", "in", "chest">> ->
         /\ \E c \in ContainersAtHand : SupportsVerb(world.items[c].props, "put")
         /\ TiedIn(CarriedNow, <<"old", "in", "chest">>)
    [] cmd = <<"take", "pebble", "from", "old">> -> TiedIn(ContainersAtHand, <<"old">>)
    [] OTHER -> FALSE

AskedToBeSpecific(blocks) ==
  \E i \in 1..Len(blocks) :
    /\ blocks[i].kind = "Text"
    /\ blocks[i].text[1] \in {"Be more specific.",
                              "Be more specific about which container.",
                              "Be more specific about what you want to"}

\* C24: both locators answer Many, with every top candidate in name order,
\* exactly when two or more candidates in scope share the greatest positive
\* overlap with the query, and they never return a candidate without overlap;
\* a take, drop, examine, store or take-from-container command whose lookup
\* meets such a tie asks the player to be more specific and leaves the item
\* locations, the flags, the room, the NPCs and the turn as they were.
C24_TieIsNeverResolved ==
  /\ [](phase = "running" => LocatorAnswers)
  /\ [][ ( /\ action_index' = action_index + 1
           /\ last'.cmd \in TieCommands
           /\ TiedLookup(last'.cmd) ) =>
           /\ AskedToBeSpecific(out')
           /\ last'.tgt_item = ""
           /\ item_locations' = item_locations
           /\ last'.flags_before = flags
           /\ current_room_id' = current_room_id
           /\ npc_locations' = npc_locations
           /\ turn_index' = turn_index
           /\ completions' = completions
           /\ fired_dialogues' = fired_dialogues
       ]_vars

\* "take old" was just answered with a request to be more specific while the
\* key, which is first by name and portable, still lies in the room next to
\* the chest
C24_TakeOldLeftKey ==
  /\ last.cmd = <<"take", "old">>
  /\ last.handler = "take"
  /\ out # <<>>
  /\ out[1] = Block("Text", <<"Be more specific.">>)
  /\ item_locations["key"] = RoomLoc(current_room_id)
  /\ item_locations["chest"] = RoomLoc(current_room_id)
  /\ find_item(Fresh(<<"old">>), <<"old">>, ItemsOfRoom).kind = "Many"
  /\ find_item(Fresh(<<"old">>), <<"old">>, ItemsOfRoom).ids[1] = "key"

\* how often a global condition fired in the pass of a step
TimesFired(l, id) == Cardinality({ i \in 1..Len(l.fired_now) : l.fired_now[i] = id })

\* the flags the pass of a step held when it reached its k-th condition
RECURSIVE FlagsAt(_, _, _)
FlagsAt(l, k, upto) ==
  IF upto = 0 THEN l.flags_before
  ELSE IF world.global_conditions[upto].id \in Range(l.fired_now)
       THEN apply_effects(FlagsAt(l, k, upto - 1), world.global_conditions[upto].effects)
       ELSE FlagsAt(l, k, upto - 1)

RoomPermits(gc, room) ==
  /\ (gc.allowed_rooms = <<>> \/ room \in Range(gc.allowed_rooms))
  /\ room \notin Range(gc.disallowed_rooms)

EventGiven(blocks, text) ==
  \E i \in 1..Len(blocks) : blocks[i] = Block("Event", text)

\* a step fires a one-shot global condition once at most, never when it has
\* fired in an earlier step, and remembers it for good
GlobalOneShotOnce ==
  \A k \in 1..Len(world.global_conditions) :
    LET gc == world.global_conditions[k]
    IN  gc.one_shot =>
          /\ TimesFired(last', gc.id) <= 1
          /\ gc.id \in fired_global_conditions =>
               /\ TimesFired(last', gc.id) = 0
               /\ ~EventGiven(out', gc.response)
               /\ gc.id \in fired_global_conditions'
          /\ TimesFired(last', gc.id) = 1 =>
               /\ EventGiven(out', gc.response)
               /\ gc.id \in fired_global_conditions'

\* a talk fires a one-shot dialogue entry never when it has fired in an
\* earlier talk, and remembers it for good
DialogueOneShotOnce ==
  \A n \in NpcIds : \A k \in 1..Len(world.npcs[n].dialogue) :
    LET dlg == world.npcs[n].dialogue[k]
    IN  dlg.one_shot =>
          /\ <<n, dlg.id>> \in fired_dialogues =>
               /\ last'.spoken # <<n, dlg.id>>
               /\ <<n, dlg.id>> \in fired_dialogues'
          /\ last'.spoken = <<n, dlg.id>> => <<n, dlg.id>> \in fired_dialogues'

\* a step fires each global condition that is not one-shot exactly when the
\* pass finds its conditions true and the room permitted
GlobalRepeats ==
  \A k \in 1..Len(world.global_conditions) :
    LET gc == world.global_conditions[k]
    IN  ~gc.one_shot =>
          ( TimesFired(last', gc.id) = 1 <=>
              /\ conditions_met(gc.conditions, FlagsAt(last', k, k - 1))
              /\ RoomPermits(gc, current_room_id') )

TalkedTo(n) == last'.handler = "talk" /\ last'.tgt_npc = n

\* the entries of an NPC that a talk may fire: conditions true, and not a
\* one-shot entry that has fired
Eligible(n) ==
  { k \in 1..Len(world.npcs[n].dialogue) :
      /\ conditions_met(world.npcs[n].dialogue[k].conditions, flags)
      /\ ~( /\ world.npcs[n].dialogue[k].one_shot
            /\ <<n, world.npcs[n].dialogue[k].id>> \in fired_dialogues ) }

\* every entry that is not one-shot fires in every talk in which its
\* conditions hold
DialogueRepeatsAlways ==
  \A n \in NpcIds : \A k \in 1..Len(world.npcs[n].dialogue) :
    ( /\ TalkedTo(n)
      /\ ~world.npcs[n].dialogue[k].one_shot
      /\ conditions_met(world.npcs[n].dialogue[k].conditions, flags) ) =>
      last'.spoken = <<n, world.npcs[n].dialogue[k].id>>

\* a talk fires the first eligible entry of the list and no other
DialogueFirstEligible ==
  \A n \in NpcIds : \A k \in 1..Len(world.npcs[n].dialogue) :
    TalkedTo(n) =>
      ( last'.spoken = <<n, world.npcs[n].dialogue[k].id>> <=>
          (k \in Eligible(n) /\ \A j \in Eligible(n) : k <= j) )

\* C25 as stated: one-shot global conditions and one-shot dialogue entries
\* fire at most once over a run, and an entry that is not one-shot fires in
\* every step, respectively in every talk, in which its conditions hold.
C25_RepeatsWheneverTrue ==
  [][ action_index' = action_index + 1 =>
        /\ GlobalOneShotOnce
        /\ DialogueOneShotOnce
        /\ GlobalRepeats
        /\ DialogueRepeatsAlways
    ]_vars

\* C25, amended: one-shot global conditions and one-shot dialogue entries
\* fire at most once over a run; a global condition that is not one-shot
\* fires in every step whose pass finds its conditions true in a permitted
\* room; a talk fires one entry only, the first of the NPC's list whose
\* conditions hold and that is not a one-shot entry already fired, so that an
\* entry that is not one-shot fires in every talk in which it is that entry.
C25_OneShotOnceFirstEligible ==
  /\ [](fired_global_conditions \subseteq { world.global_conditions[k].id :
                                             k \in 1..Len(world.global_conditions) })
  /\ [][ action_index' = action_index + 1 =>
           /\ GlobalOneShotOnce
           /\ DialogueOneShotOnce
           /\ GlobalRepeats
           /\ DialogueFirstEligible
           /\ fired_global_conditions \subseteq fired_global_conditions'
           /\ fired_dialogues \subseteq fired_dialogues'
       ]_vars

\* the guard was talked to a second time: the one-shot greeting, whose
\* conditions still hold, stayed silent and the entry after it was spoken;
\* the one-shot faintness has fired before and stayed silent too although the
\* player is hurt
C25_SecondTalkSkipsGreeting ==
  /\ last.handler = "talk"
  /\ last.spoken = <<"guard", "again">>
  /\ <<"guard", "hello">> \in fired_dialogues
  /\ Said(out, <<"Move along.">>)
  /\ ~Said(out, <<"Halt.">>)
  /\ "faint" \in fired_global_conditions
  /\ Pos("hurt") \in flags
  /\ last.fired_now = <<>>

\* C26: once initialize has run on a world whose start room exists, the
\* current room id is a key of the world's rooms in every state; no step ends
\* in the "unknown room" error, and a step returns the quit flag only for the
\* commands quit and exit.
C26_CurrentRoomExists ==
  (world.start_room \in RoomIds /\ phase = "running") =>
    /\ current_room_id \in DOMAIN world.rooms
    /\ last.handler # "unknown_room"
    /\ \A i \in 1..Len(out) : out[i].text[1] # "Error: you are in an unknown room"
    /\ quit => LowerAll(last.cmd) \in {<<"quit">>, <<"exit">>}

\* a step just tried an exit whose target is no room of the world: the
\* player is still in a room of the world and the game goes on
C26_BadExitKeepsRoom ==
  /\ phase = "running"
  /\ last.cmd = <<"up">>
  /\ last.handler = "movement"
  /\ \E i \in 1..Len(out) :
       /\ out[i].kind = "Text"
       /\ out[i].text[Len(out[i].text)] = ", but something feels wrong (room not found)."
  /\ "attic" \notin DOMAIN world.rooms
  /\ current_room_id \in DOMAIN world.rooms
  /\ ~quit

\* the take commands that name one item, and the query each one passes on
PlainTakes == { <<"take", "key">>, <<"take", "old">> }

\* the visible items of the current room that match the query best
TakeTop(cmd) == TopOf(ItemsOfRoom \cap VisibleItems, ItemWords, Tail(LowerAll(cmd)))

\* C27: a take whose query matches one visible item of the current room, a
\* portable one, moves that item to the inventory, leaves every other item
\* where it was and says "You take the <name>."; a take whose query matches
\* no visible item of the room, as when the command is repeated after the
\* item has gone to the inventory, says "You don't see that here." and
\* changes no location.
C27_TakeMovesToInventory ==
  [][ ( /\ action_index' = action_index + 1
        /\ last'.cmd \in PlainTakes ) =>
        /\ \A id \in TakeTop(last'.cmd) :
             (TakeTop(last'.cmd) = {id} /\ world.items[id].portable) =>
               /\ item_locations' = [item_locations EXCEPT ![id] = InventoryLoc]
               /\ out'[1] = Block("Text", <<"You take the">> \o world.items[id].name \o <<".">>)
        /\ TakeTop(last'.cmd) = {} =>
             /\ item_locations' = item_locations
             /\ out'[1] = Block("Text", <<"You don't see that here.">>)
        /\ ( /\ last.cmd = last'.cmd
             /\ last.tgt_item # ""
             /\ item_locations[last.tgt_item] = InventoryLoc
             /\ TakeTop(last'.cmd) = {} ) =>
             /\ item_locations' = item_locations
             /\ Said(out', <<"You don't see that here.">>)
    ]_vars

\* "take key" was just answered with "You don't see that here.": the key is
\* in the inventory and nothing else in the room answers to "key"
C27_SecondTakeSeesNothing ==
  /\ last.cmd = <<"take", "key">>
  /\ last.handler = "take"
  /\ last.tgt_item = ""
  /\ Said(out, <<"You don't see that here.">>)
  /\ item_locations["key"] = InventoryLoc
  /\ TakeTop(<<"take", "key">>) = {}

\* the flag a condition or an effect names: the string itself, or the
\* string without its first '!'
Named(c) == IF c.bangs > 0 THEN [bangs |-> c.bangs - 1, name |-> c.name] ELSE c

Unprefixed(list) == { list[i] : i \in { j \in 1..Len(list) : list[j].bangs = 0 } }
Prefixed(list) == { list[i] : i \in { j \in 1..Len(list) : list[j].bangs > 0 } }

\* C28: conditions_met answers true exactly when every unprefixed condition
\* is a flag of the set and no '!'-prefixed condition names a flag of the
\* set; the empty list is true, a flag that the set does not hold counts as
\* absent, and the call leaves the set alone.
C28_ConditionsMetIffAllHold ==
  last.op = "conditions_met" =>
    /\ last.met \in BOOLEAN
    /\ last.met <=> ( /\ Unprefixed(last.list) \subseteq last.before
                      /\ { Named(c) : c \in Prefixed(last.list) } \cap last.before = {} )
    /\ last.list = <<>> => last.met
    /\ (\E c \in Unprefixed(last.list) : c \notin last.before) => ~last.met
    /\ flags = last.before

\* conditions_met just answered true for "a", "!!a" and "!c" on a set that
\* holds "a" and holds neither "!a" nor "c"
C28_AbsentFlagSatisfiesNegation ==
  /\ last.op = "conditions_met"
  /\ last.list = <<Pos("a"), [bangs |-> 2, name |-> "a"], Neg("c")>>
  /\ Pos("a") \in last.before
  /\ Pos("c") \notin last.before
  /\ last.met

\* the flags a HashSet of the calls may hold
FlagUniverse == { Pos("a"), Pos("b"), Pos("c"), Neg("a"), Neg("c") }

\* the positions of an effect list that name the flag
Naming(list, f) == { i \in 1..Len(list) : Named(list[i]) = f }

\* C29: after apply_effects a flag that the list names is in the set exactly
\* when the last entry naming it is unprefixed, and a flag that the list does
\* not name is in the set exactly when it was before.
C29_LastEffectDecides ==
  last.op = "apply_effects" =>
    \A f \in FlagUniverse \cup flags \cup last.before :
      IF Naming(last.list, f) = {}
      THEN f \in flags <=> f \in last.before
      ELSE f \in flags <=> last.list[SetMax(Naming(last.list, f))].bangs = 0

\* apply_effects just worked through "a", "!a", "a" and "!c", "c", "!c" on
\* sets that held "b": "a" is in, "c" is out, "b" is where it was
C29_NamedTwice ==
  /\ last.op = "apply_effects"
  /\ last.list \in { <<Pos("a"), Neg("a"), Pos("a")>>, <<Neg("c"), Pos("c"), Neg("c")>> }
  /\ Pos("b") \in last.before
  /\ Pos("b") \in flags
  /\ Pos("a") \in flags <=> Pos("a") \in Range(last.list)
  /\ Pos("c") \notin flags

\* the exits of the current room whose conditions do not hold
ClosedExits ==
  { e \in Range(world.rooms[current_room_id].exits) :
      ~conditions_met(e.conditions, flags) }

\* the directions an ambiguity report lists
ListedDirections(blocks) ==
  UNION { Range(SubSeq(blocks[i].text, 2, Len(blocks[i].text) - 1)) :
            i \in { j \in 1..Len(blocks) :
                      /\ blocks[j].kind = "Text"
                      /\ blocks[j].text[1] \in
                           {"That movement is ambiguous here. Did you mean:",
                            "That direction is ambiguous here. Did you mean:"} } }

\* C30: an exit whose conditions do not hold under the flags the command
\* finds is matched by neither movement pass: no step attempts it, no step
\* changes the room through it, no ambiguity report lists it, and a command
\* that names it together with exactly one exit whose conditions hold
\* attempts that one exit.
C30_ClosedExitNeverMatched ==
  [][ (action_index' = action_index + 1 /\ current_room_id \in RoomIds) =>
        /\ \A e \in ClosedExits :
             /\ last'.tgt_exit # e.direction
             /\ e.direction \notin ListedDirections(out')
        /\ current_room_id' # current_room_id =>
             \E e \in Range(world.rooms[current_room_id].exits) \ ClosedExits :
               /\ e.direction = last'.tgt_exit
               /\ e.target = current_room_id'
        /\ ( /\ last'.handler = "movement"
             /\ Cardinality(ExactExits(LowerAll(last'.cmd))) = 1 ) =>
             /\ ListedDirections(out') = {}
             /\ \E e \in ExactExits(LowerAll(last'.cmd)) : last'.tgt_exit = e.direction
    ]_vars

\* "go NORTH" just took the player from the hall to the yard although the
\* hall's exit down, which answers to "go", was in the way: its condition
\* did not hold
C30_ClosedExitDidNotInterfere ==
  /\ last.cmd = <<"go", "NORTH">>
  /\ last.handler = "movement"
  /\ last.tgt_exit = "north"
  /\ current_room_id = "yard"
  /\ Pos("chest_done") \notin last.flags_before
  /\ \E k \in 1..Len(world.rooms["hall"].exits) :
       /\ "go" \in Range(world.rooms["hall"].exits[k].verbs)
       /\ world.rooms["hall"].exits[k].conditions = <<Pos("chest_done")>>

\* "go NORTH" was just found ambiguous between the exits north and down of
\* the hall: the condition of the exit down holds
C30_OpenExitIsMatched ==
  /\ last.cmd = <<"go", "NORTH">>
  /\ last.handler = "movement"
  /\ current_room_id = "hall"
  /\ Pos("chest_done") \in flags
  /\ ListedDirections(out) = {"north", "down"}

\* the containers of the world
Containers == { c \in ItemIds : world.items[c].kind = "Container" }

\* every item the container requires lies directly in it
AllRequiredIn(locs, c) ==
  \A k \in 1..Len(world.items[c].props.complete_when) :
    /\ world.items[c].props.complete_when[k] \in DOMAIN locs
    /\ locs[world.items[c].props.complete_when[k]] = ItemLoc(c)

\* C31: the command of a step sets a container's completion flag exactly when
\* the step is a successful store into that container, the container
\* declares a completion flag and a list of required items that is not
\* empty, the flag was not set, and every required item then lies directly in
\* that container; no other step and no other container completes.
C31_CompletionIffStoreSatisfies ==
  [][ action_index' = action_index + 1 =>
        \A c \in Containers :
          /\ c \in last'.completed <=>
               /\ StoredOk(last', out')
               /\ last'.tgt_cont = c
               /\ world.items[c].props.complete_flag.some
               /\ world.items[c].props.complete_when # <<>>
               /\ world.items[c].props.complete_flag.val \notin flags
               /\ AllRequiredIn(item_locations', c)
          /\ c \in last'.completed =>
               /\ world.items[c].props.complete_flag.val \in last'.flags_before
               /\ last'.flags_before = flags \cup {world.items[c].props.complete_flag.val}
          /\ (world.items[c].props.complete_flag.some /\ c \notin last'.completed) =>
               ( world.items[c].props.complete_flag.val \in last'.flags_before
                   <=> world.items[c].props.complete_flag.val \in flags )
    ]_vars

\* the gem has just been stored in the chest, which it completes, while the
\* box, which declares a flag and requires nothing, holds the coin or itself
\* and has not completed
C31_ChestCompletedBoxDidNot ==
  /\ StoredOk(last, out)
  /\ last.tgt_cont = "chest"
  /\ last.completed = {"chest"}
  /\ item_locations["gem"] = ItemLoc("chest")
  /\ Pos("chest_done") \in last.flags_before
  /\ \E i \in DOMAIN item_locations : item_locations[i] = ItemLoc("box")
  /\ Pos("box_done") \notin flags

\* a word of the item's primary name is a token of the input
NameWordGiven(id, tokens) ==
  \E k \in 1..Len(world.items[id].name) :
    \E t \in 1..Len(tokens) : tokens[t] = Lower(world.items[id].name[k])

\* a word of one of the item's aliases is a token of the input
AliasWordGiven(id, tokens) ==
  \E a \in 1..Len(world.items[id].aliases) :
    \E k \in 1..Len(world.items[id].aliases[a]) :
      \E t \in 1..Len(tokens) : tokens[t] = Lower(world.items[id].aliases[a][k])

\* what the scope loop makes of a list of requirements
ScopeOf(reqs, tokens) ==
  ScopeLoop(reqs, tokens, item_locations, current_room_id,
            [ok |-> TRUE, mentioned |-> TRUE, score |-> 0])

\* every action the resolvers may look at
AllActions ==
  UNION ( { Range(world.rooms[r].actions) : r \in RoomIds }
          \cup { Range(world.npcs[n].actions) : n \in NpcIds }
          \cup { Range(world.global_actions) } )

\* C32 as stated: for a command that reaches the action resolvers a required
\* item counts as mentioned, for 3 points, when a word of its primary name or
\* of one of its aliases is a token of the input.
C32_NameOrAliasMentions ==
  phase = "running" =>
    \A input \in {last.cmd} \cap RoomCommands : \A id \in ItemIds :
      (NameWordGiven(id, LowerAll(input)) \/ AliasWordGiven(id, LowerAll(input))) =>
        \A r \in {ScopeOf(<<id>>, LowerAll(input))} : r.mentioned /\ r.score = 3

\* C32, amended: for a command that reaches the action resolvers a required
\* item counts as mentioned, for 3 points, exactly when a word of its primary
\* name is a token of the input; the words of its aliases do not count.  The
\* requirements of an action score 3 points for each item so mentioned, and
\* the intent is strong when all of them are.
C32_OnlyNameMentions ==
  phase = "running" =>
    \A input \in {last.cmd} \cap RoomCommands :
      /\ \A id \in ItemIds :
           \A r \in {ScopeOf(<<id>>, LowerAll(input))} :
             /\ r.mentioned <=> NameWordGiven(id, LowerAll(input))
             /\ r.score = IF NameWordGiven(id, LowerAll(input)) THEN 3 ELSE 0
      /\ \A action \in AllActions :
           \A r \in {ScopeOf(action.scope_requirements, LowerAll(input))} :
             /\ r.score = 3 * Cardinality({ k \in 1..Len(action.scope_requirements) :
                                              NameWordGiven(action.scope_requirements[k],
                                                            LowerAll(input)) })
             /\ r.mentioned <=> \A k \in 1..Len(action.scope_requirements) :
                                  NameWordGiven(action.scope_requirements[k], LowerAll(input))

\* "polish old" was just given in the hall next to the chest, which answers
\* to "old" by an alias: none of the actions that require the chest was
\* executed or reported, and the command was not understood
C32_AliasDidNotMention ==
  /\ last.cmd = <<"polish", "old">>
  /\ current_room_id = "hall"
  /\ item_locations["chest"] = RoomLoc("hall")
  /\ AliasWordGiven("chest", LowerAll(last.cmd))
  /\ ~NameWordGiven("chest", LowerAll(last.cmd))
  /\ last.handler = "none"
  /\ last.exec = ""
  /\ out[1] = Block("Text", <<"I don't understand that command.">>)

\* C33: a blocked move changes flags only through the blocking NPC's attack
\* effects: they are applied, and the attack text emitted, exactly when the
\* NPC is a foe with a positive attack chance and the roll for the action
\* counter and the NPC's id, a value in 0..99, is below that chance;
\* otherwise the command leaves the flags alone. Either way the room, the
\* turn counter and the locations of items and NPCs stay as they were.
C33_BlockedMoveFrame ==
  [][ (action_index' = action_index + 1 /\ last'.blocker # "") =>
        LET npc == world.npcs[last'.blocker]
            roll == stable_roll_percent(action_index', npc.id)
            hit == /\ npc.foe
                   /\ npc.attack_chance_percent > 0
                   /\ roll < npc.attack_chance_percent
        IN  /\ roll \in 0..99
            /\ Struck(out', npc.id) <=> hit
            /\ last'.flags_before = (IF hit THEN apply_effects(flags, npc.attack_effects)
                                     ELSE flags)
            /\ current_room_id' = current_room_id
            /\ turn_index' = turn_index
            /\ item_locations' = item_locations
            /\ npc_locations' = npc_locations
    ]_vars

\* the guard has just blocked the way north and struck: the player is hurt
\* and still in the hall
C33_GuardStruck ==
  /\ last.blocker = "guard"
  /\ last.rolled
  /\ Struck(out, "guard")
  /\ Pos("hurt") \in last.flags_before
  /\ current_room_id = "hall"
  /\ turn_index = 0

\* the guard has just blocked the way and missed: no flag was gained
C33_GuardMissed ==
  /\ last.blocker = "guard"
  /\ last.rolled
  /\ ~Struck(out, "guard")
  /\ Pos("hurt") \notin last.flags_before

\* the resolvers of a command without a reserved verb, in the order of the
\* if / else-if chain of step
ResolverOrder ==
  <<"store", "look", "movement", "npc_action", "room_action", "global_action">>

\* resolver k, asked on its own about the command, reports handled
Handles(w, input, k) ==
  IF k = 1 THEN try_handle_container_store(w, Lower(Head(input)),
                                           LowerAll(Tail(input))).handled
  ELSE IF k = 2 THEN LowerAll(input) \in {<<"look">>, <<"l">>}
  ELSE IF k = 3 THEN try_handle_movement(w, world.rooms[w.room], LowerAll(input),
                                         w.action).handled
  ELSE IF k = 4 THEN try_handle_npc_action(w, input).handled
  ELSE IF k = 5 THEN try_handle_action(w, world.rooms[w.room], input).handled
  ELSE try_handle_global_action(w, input).handled

\* the first resolver in the chain's order that reports handled (0: none)
FirstHandling(w, input) ==
  IF \E k \in 1..6 : Handles(w, input, k)
  THEN CHOOSE k \in 1..6 : Handles(w, input, k) /\ \A j \in 1..(k - 1) : ~Handles(w, input, j)
  ELSE 0

ActionIds(actions) == { actions[i].id : i \in 1..Len(actions) }

\* C34: for a command that does not start with a reserved verb the resolvers
\* are tried in the order container-store, look, movement, NPC action, room
\* action, global action, and the first that reports handled ends the chain.
\* So a command that matches a visible exit executes no action at all, a
\* command the room's actions handle (executable, blocked or ambiguous)
\* executes no global action, and "I don't understand that command." is said
\* only when every resolver declines.
C34_FirstHandlerEndsChain ==
  [][ (/\ action_index' = action_index + 1
       /\ last'.cmd \in StoreCommands \cup RoomCommands
       /\ current_room_id \in RoomIds) =>
        \A input \in {last'.cmd} : \A k \in {FirstHandling(Fresh(input), input)} :
          /\ last'.handler = (IF k = 0 THEN "none" ELSE ResolverOrder[k])
          /\ Said(out', <<"I don't understand that command.">>) => k = 0
          /\ (k >= 3 /\ ExactExits(LowerAll(input)) \cup AbbrevExits(LowerAll(input)) # {}) =>
               /\ k = 3
               /\ last'.exec = ""
          /\ (ExactExits(LowerAll(input)) \cup AbbrevExits(LowerAll(input)) # {}) =>
               last'.exec = ""
          /\ Handles(Fresh(input), input, 5) =>
               last'.exec \notin ActionIds(world.global_actions)
    ]_vars

\* "go north" in the hall has just been handled by the movement resolver,
\* although the hall's action "stride" answers to the verb "go"
C34_MoveBeforeRoomAction ==
  /\ last.cmd = <<"go", "NORTH">>
  /\ last.handler = "movement"
  /\ last.exec = ""
  /\ last.tgt_exit = "north"
  /\ current_room_id = "yard"
  /\ turn_index = 1
  /\ \E i \in 1..Len(world.rooms["hall"].actions) :
       /\ world.rooms["hall"].actions[i].verbs = << <<"go">> >>
       /\ world.rooms["hall"].actions[i].nouns = <<>>
       /\ world.rooms["hall"].actions[i].scope_requirements = <<>>
       /\ world.rooms["hall"].actions[i].requires_inventory = <<>>
       /\ world.rooms["hall"].actions[i].conditions = <<>>

\* "ring bell" in the hall has just been handled by a room action, and the
\* global action "toll", which the same words would execute, was not asked
C34_RoomActionBeforeGlobal ==
  /\ last.cmd = <<"ring", "bell">>
  /\ last.handler = "room_action"
  /\ last.exec = "ring_bell"
  /\ current_room_id = "hall"
  /\ try_handle_global_action(Fresh(last.cmd), last.cmd).exec = "toll"

\* the flags whose membership differs between the sets a and b
FlagDiff(a, b) == (a \ b) \cup (b \ a)

\* C35: the diff of changed flags is taken between the flags as the command
\* left them and the flags at the end of the global-condition pass. What the
\* command itself changed (action, completion, attack and dialogue effects)
\* is not part of it: a step whose pass changes no flag renders nothing after
\* the command, and a re-render happens only when the pass changed a flag
\* that a condition reachable from the room names.
C35_OnlyPassChangesCount ==
  [][ action_index' = action_index + 1 =>
        \A d \in {Dispatch(Fresh(last'.cmd), last'.cmd)} :
          /\ last'.flags_before = d.flags
          /\ FlagDiff(last'.flags_before, flags') = {} =>
               /\ ~last'.rerendered
               /\ last'.renders = d.renders
          /\ last'.rerendered =>
               \E f \in FlagDiff(last'.flags_before, flags') :
                 \E c \in RoomConditions' : c.name = f.name
    ]_vars

\* "pull lever" has just set the flag lever, which the hall's description
\* names; no global condition fired and the hall was not rendered
C35_CommandFlagNoRerender ==
  /\ last.cmd = <<"pull", "lever">>
  /\ last.exec = "pull_lever"
  /\ current_room_id = "hall"
  /\ Pos("lever") \in flags
  /\ \E c \in RoomConditions : c.name = "lever"
  /\ ChangedByPass = {}
  /\ last.fired_now = <<>>
  /\ last.renders = 0
  /\ ~last.rerendered

\* the position of a global condition in the declaration order
DeclaredAt(id) ==
  CHOOSE k \in 1..Len(world.global_conditions) : world.global_conditions[k].id = id

\* C37: every step, whatever its command, ends with one pass over the global
\* conditions in declaration order, each tested against the flags as the
\* conditions before it in the same pass left them. A condition fires in
\* the pass exactly when it is not a one-shot that has fired, its conditions
\* hold on those flags, and the room is permitted (in a non-empty allow-list,
\* not in the deny-list); so a condition enabled by an earlier one fires in
\* the same step, and one enabled only by a later one waits for a later step.
C37_OnePassInDeclarationOrder ==
  [][ action_index' = action_index + 1 =>
        /\ \A k \in 1..Len(world.global_conditions) :
             \A gc \in {world.global_conditions[k]} :
               /\ TimesFired(last', gc.id) <= 1
               /\ TimesFired(last', gc.id) = 1 <=>
                    /\ ~(gc.one_shot /\ gc.id \in fired_global_conditions)
                    /\ conditions_met(gc.conditions, FlagsAt(last', k, k - 1))
                    /\ gc.allowed_rooms # <<>> => current_room_id' \in Range(gc.allowed_rooms)
                    /\ current_room_id' \notin Range(gc.disallowed_rooms)
        /\ \A i, j \in 1..Len(last'.fired_now) :
             i < j => DeclaredAt(last'.fired_now[i]) < DeclaredAt(last'.fired_now[j])
        /\ flags' = FlagsAt(last', Len(world.global_conditions),
                            Len(world.global_conditions))
        /\ fired_global_conditions' =
             fired_global_conditions
               \cup { id \in Range(last'.fired_now) :
                        world.global_conditions[DeclaredAt(id)].one_shot }
    ]_vars

\* the step that brought the player to the yard fired breeze and, on the flag
\* windy that breeze had just set, gust, which is declared after it; chill,
\* declared before breeze, did not fire
C37_LaterConditionSameStep ==
  /\ last.fired_now = <<"breeze", "gust">>
  /\ Pos("windy") \notin last.flags_before
  /\ Pos("windy") \in flags
  /\ Pos("cold") \notin flags
  /\ current_room_id = "yard"

\* a quit in the yard, one step later, has just fired chill
C37_EarlierConditionNextStep ==
  /\ last.cmd = <<"quit">>
  /\ last.handler = "quit"
  /\ last.fired_now = <<"chill">>
  /\ Pos("windy") \in last.flags_before
  /\ Pos("cold") \in flags
  /\ "chill" \in fired_global_conditions
  /\ current_room_id = "yard"

\* back in the hall, which chill's deny-list names, a step has fired nothing
\* although chill's conditions hold and it has never fired
C37_DenyListHolds ==
  /\ current_room_id = "hall"
  /\ Pos("windy") \in last.flags_before
  /\ "chill" \notin fired_global_conditions
  /\ last.fired_now = <<>>
  /\ Pos("cold") \notin flags

\* C36: a command that no resolver recognizes, answered with "I don't
\* understand that command.", leaves the room, the locations of items and
\* NPCs, the turn counter and the set of fired dialogues as they were; the
\* action counter advances by one; the command itself changes no flag, and
\* flags and the set of fired global conditions change only by what the
\* global-condition pass at the end of the step fires.
C36_UnrecognizedChangesNothing ==
  [][ (/\ action_index' = action_index + 1
       /\ Said(out', <<"I don't understand that command.">>)) =>
        /\ last'.handler = "none"
        /\ current_room_id' = current_room_id
        /\ item_locations' = item_locations
        /\ npc_locations' = npc_locations
        /\ turn_index' = turn_index
        /\ fired_dialogues' = fired_dialogues
        /\ last'.flags_before = flags
        /\ \A r \in {evaluate_global_conditions(Fresh(last'.cmd))} :
             /\ flags' = r.flags
             /\ fired_global_conditions' = r.fired_gc
        /\ last'.fired_now = <<>> =>
             /\ flags' = flags
             /\ fired_global_conditions' = fired_global_conditions
    ]_vars

\* "xyzzy" in the yard was not understood; the pass at the end of that step
\* fired chill, which set the flag cold
C36_NotUnderstoodPassFired ==
  /\ last.cmd = <<"xyzzy">>
  /\ last.handler = "none"
  /\ out[1] = Block("Text", <<"I don't understand that command.">>)
  /\ last.fired_now = <<"chill">>
  /\ Pos("cold") \in flags
  /\ Pos("cold") \notin last.flags_before
  /\ current_room_id = "yard"
  /\ turn_index = 1

\* the items that are not portable and do not start in the inventory
Fixtures ==
  { i \in ItemIds : ~world.items[i].portable /\ world.items[i].start_location # InventoryLoc }

\* the step refused to take item i because it is not portable
RefusedTake(l, blocks, i) ==
  /\ l.handler \in {"take", "take_from"}
  /\ ~world.items[i].portable
  /\ Said(blocks, <<"You can't take the">> \o world.items[i].name \o <<".">>)

\* C38: an item that is not portable and does not start in the inventory is
\* never in the inventory, whatever takes (take, take all, take from a
\* container, take all from a container) have been tried; a take refused
\* because the item is not portable changes no location, and the two forms
\* of take all leave every such item where it was.
C38_FixturesNeverCarried ==
  /\ [](\A i \in Fixtures : i \in DOMAIN item_locations => item_locations[i] # InventoryLoc)
  /\ [][ action_index' = action_index + 1 =>
           /\ (\E i \in ItemIds : RefusedTake(last', out', i)) =>
                item_locations' = item_locations
           /\ last'.handler \in {"take", "take_all", "take_from", "take_all_from"} =>
                \A i \in Fixtures :
                  i \in DOMAIN item_locations =>
                    /\ i \in DOMAIN item_locations'
                    /\ item_locations'[i] = item_locations[i]
       ]_vars

\* with the urn open, "take pebble from urn" has just been refused: the
\* pebble is still in the urn
C38_PebbleStays ==
  /\ last.cmd = <<"take", "pebble", "from", "urn">>
  /\ last.tgt_cont = "urn"
  /\ RefusedTake(last, out, "pebble")
  /\ Pos("lever") \in flags
  /\ item_locations["pebble"] = ItemLoc("urn")

\* "take chest" has just been refused in the hall
C38_ChestStays ==
  /\ last.cmd = <<"take", "chest">>
  /\ RefusedTake(last, out, "chest")
  /\ item_locations["chest"] = RoomLoc("hall")

\* "take all" has just taken the key and left the chest, the urn and the
\* visible bell in the hall
C38_TakeAllLeavesFixtures ==
  /\ last.handler = "take_all"
  /\ Pos("lever") \in flags
  /\ item_locations["key"] = InventoryLoc
  /\ Said(out, <<"You take the", "brass", "key", ".">>)
  /\ \A i \in {"chest", "urn", "bell"} : item_locations[i] = RoomLoc("hall")

\* "take all from urn", the urn open, has just found nothing it may take
C38_TakeAllFromLeavesPebble ==
  /\ last.handler = "take_all_from"
  /\ last.tgt_cont = "urn"
  /\ Pos("lever") \in flags
  /\ Said(out, <<"There is nothing in the", "urn", "you can take.">>)
  /\ item_locations["pebble"] = ItemLoc("urn")

\* the exit of the current room that the command matches uniquely leads back
\* into the current room
LoopExits(tokens) == { e \in UniqueExit(tokens) : e.target = current_room_id }

\* C39: a uniquely matched, unblocked move through an exit whose target is
\* the current room says "You go <direction>." and is no change of room: the
\* turn counter stays, no NPC roams, and the room is rendered neither by the
\* move nor after the global-condition pass of that step, whatever flags the
\* pass changed.
C39_LoopExitIsNoMove ==
  [][ ( /\ action_index' = action_index + 1
        /\ last'.handler = "movement"
        /\ last'.blocker = ""
        /\ current_room_id \in RoomIds ) =>
        \A e \in LoopExits(LowerAll(last'.cmd)) :
          /\ last'.tgt_exit = e.direction
          /\ Said(out', <<"You go", e.direction, ".">>)
          /\ current_room_id' = current_room_id
          /\ turn_index' = turn_index
          /\ last'.roams = 0
          /\ npc_locations' = npc_locations
          /\ last'.renders = 0
          /\ ~last'.rerendered
          /\ \A i \in 1..Len(out') : out'[i].kind \notin {"Title", "Exits"}
    ]_vars

\* "up" in the yard has just led back into the yard; the pass of that step
\* fired chill and set the flag cold, which the yard's description names,
\* and still the yard was not rendered
C39_WentUpStayedInYard ==
  /\ last.cmd = <<"up">>
  /\ last.handler = "movement"
  /\ last.tgt_exit = "up"
  /\ Said(out, <<"You go", "up", ".">>)
  /\ current_room_id = "yard"
  /\ turn_index = 1
  /\ last.fired_now = <<"chill">>
  /\ Pos("cold") \in ChangedByPass
  /\ \E c \in RoomConditions : c.name = "cold"
  /\ last.renders = 0
  /\ ~last.rerendered

====
